---------------------------- MODULE Spec2Model ----------------------------
(***************************************************************************)
(* Bedtime story generator (src/main.py): the resilient call gateway       *)
(* (call_model), the tolerant parsers, the request analyzer, the           *)
(* draft-judge-refine loop, the interactive choice mode and the session    *)
(* loop of main.                                                           *)
(*                                                                         *)
(* Text is a sequence of tokens.  A token is a chunk of characters that    *)
(* the program's regular expressions and string methods treat as a unit:   *)
(* a white-space character, a punctuation character, a decimal digit, a    *)
(* label word in one of its spellings, or a word that contains no label.   *)
(***************************************************************************)
EXTENDS Naturals, Integers, Sequences, FiniteSets, TLC

\* ------------------------------------------------------------ constants
MAX_REFINEMENT_ITERATIONS == 5
JUDGE_THRESHOLD == 7
API_MAX_RETRIES == 3
\* API_RETRY_BACKOFF_SECONDS = 1.5, in tenths of a second
API_RETRY_BACKOFF_TENTHS == 15
CHOICE_MODE_MAX_STEPS == 3

\* Python's None, where a string may stand
None == "None"

\* ------------------------------------------------------------ text
SP == " "
NL == "\n"
EmptyText == << >>

IsSpace(t) == t \in {SP, NL}
IsDigit(t) == t \in {"0", "1", "2", "3", "4", "5", "6", "7", "8", "9"}

MinOf(S) == CHOOSE m \in S : \A n \in S : m <= n
MaxOf(S) == CHOOSE m \in S : \A n \in S : m >= n

\* s[from..] and s[..upto] with Python's slice conventions on 1-based indices
From(s, i) == SubSeq(s, i, Len(s))
Upto(s, i) == SubSeq(s, 1, i)

\* first index >= i whose token is not white space (Len(s)+1 when none): \s*
SkipSpace(s, i) ==
    LET S == {k \in i..Len(s) : ~IsSpace(s[k])}
    IN  IF S = {} THEN Len(s) + 1 ELSE MinOf(S)

\* after an optional ":" at i
SkipColon(s, i) == IF i <= Len(s) /\ s[i] = ":" THEN i + 1 ELSE i

\* \s*:?\s* starting at i (greedy; each part always succeeds)
SkipSep(s, i) == SkipSpace(s, SkipColon(s, SkipSpace(s, i)))

\* str.strip()
strip(s) ==
    LET S == {k \in 1..Len(s) : ~IsSpace(s[k])}
    IN  IF S = {} THEN EmptyText ELSE SubSeq(s, MinOf(S), MaxOf(S))

\* str.rstrip()
rstrip(s) ==
    LET S == {k \in 1..Len(s) : ~IsSpace(s[k])}
    IN  IF S = {} THEN EmptyText ELSE SubSeq(s, 1, MaxOf(S))

\* the lower-case and upper-case spelling of a token
LowerTok(t) ==
    CASE t \in {"CATEGORY", "Category"} -> "category"
      [] t \in {"TONE", "Tone"} -> "tone"
      [] t \in {"SETTING", "Setting"} -> "setting"
      [] t \in {"CHARACTERS", "Characters"} -> "characters"
      [] t \in {"THEMES", "Themes"} -> "themes"
      [] t \in {"FUNNY", "Funny"} -> "funny"
      [] t \in {"BEDTIME", "Bedtime"} -> "bedtime"
      [] t \in {"CALMING", "Calming"} -> "calming"
      [] t \in {"WHIMSICAL", "Whimsical"} -> "whimsical"
      [] t \in {"SPOOKY", "Spooky"} -> "spooky"
      [] t \in {"QUIT", "Quit"} -> "quit"
      [] OTHER -> t

UpperTok(t) ==
    CASE t \in {"category", "Category"} -> "CATEGORY"
      [] t \in {"tone", "Tone"} -> "TONE"
      [] t \in {"setting", "Setting"} -> "SETTING"
      [] t \in {"characters", "Characters"} -> "CHARACTERS"
      [] t \in {"themes", "Themes"} -> "THEMES"
      [] t \in {"funny", "Funny"} -> "FUNNY"
      [] t \in {"bedtime", "Bedtime"} -> "BEDTIME"
      [] t \in {"calming", "Calming"} -> "CALMING"
      [] t \in {"whimsical", "Whimsical"} -> "WHIMSICAL"
      [] t \in {"spooky", "Spooky"} -> "SPOOKY"
      [] OTHER -> t

\* str.lower(), str.upper()
lower(s) == [i \in 1..Len(s) |-> LowerTok(s[i])]
upper(s) == [i \in 1..Len(s) |-> UpperTok(s[i])]

\* str.split(sep): the pieces between the occurrences of the token sep
RECURSIVE split(_, _)
split(s, sep) ==
    LET S == {k \in 1..Len(s) : s[k] = sep}
    IN  IF S = {} THEN << s >>
        ELSE << Upto(s, MinOf(S) - 1) >> \o split(From(s, MinOf(S) + 1), sep)

\* str.splitlines(): no piece for the empty text nor after a final line break
splitlines(s) ==
    IF s = EmptyText THEN << >>
    ELSE LET p == split(s, NL)
         IN  IF p[Len(p)] = EmptyText THEN Upto(p, Len(p) - 1) ELSE p

\* [x.strip() for x in seq if x.strip()]
StripKeep(seq) ==
    LET kept == SelectSeq(seq, LAMBDA x : strip(x) # EmptyText)
    IN  [i \in 1..Len(kept) |-> strip(kept[i])]

\* a variant without the default
MutOrElse(s, default) == s

\* "x or default" on strings
OrElse(s, default) == IF s = EmptyText THEN default ELSE s

\* ------------------------------------------------------------ small helpers
\* a variant that does not clamp
MutClampInt(v, lo, hi, default) == v

\* clamp_int(value, lo, hi, default) on a value int() accepts
clamp_int(v, lo, hi, default) ==
    LET m == IF hi < v THEN hi ELSE v
    IN  IF lo > m THEN lo ELSE m

\* safe_split_csv
safe_split_csv(text) ==
    IF text = EmptyText THEN << >>
    ELSE StripKeep(split(text, ","))

AllowedTones ==
    {<<"whimsical">>, <<"exciting">>, <<"calming">>, <<"humorous">>,
     <<"heartwarming">>, <<"inspiring">>}

\* a variant without the list of allowed tones
MutNormalizeTone(tone) == OrElse(lower(strip(tone)), <<"whimsical">>)

\* normalize_tone
normalize_tone(tone) ==
    LET t == lower(strip(tone))
    IN  IF t \in AllowedTones THEN t ELSE <<"whimsical">>

\* StoryCategory: each member is named by its value
StoryCategory ==
    {"adventure", "fantasy", "animal", "friendship", "bedtime", "educational",
     "funny"}

\* ------------------------------------------------------------ analyzer
\* parse_analyzer_response: the dict as the sequence of its (key, value)
\* assignments in order; a later assignment of a key replaces an earlier one
parse_analyzer_response(response) ==
    LET HasColon(line) == \E k \in 1..Len(line) : line[k] = ":"
        Pair(line) ==
            LET c == MinOf({k \in 1..Len(line) : line[k] = ":"})
            IN  [key |-> upper(strip(Upto(line, c - 1))),
                 value |-> strip(From(line, c + 1))]
        kept == SelectSeq(splitlines(strip(response)), HasColon)
    IN  [i \in 1..Len(kept) |-> Pair(kept[i])]

\* dict.get(key, default)
DictGet(parsed, key, default) ==
    LET S == {k \in 1..Len(parsed) : parsed[k].key = key}
    IN  IF S = {} THEN default ELSE parsed[MaxOf(S)].value

\* analyze_request, from the gateway's response on
analyze_request(user_input, response) ==
    LET parsed == parse_analyzer_response(response)
        category_str ==
            lower(strip(OrElse(DictGet(parsed, <<"CATEGORY">>, <<"bedtime">>),
                               <<"bedtime">>)))
        category ==
            IF Len(category_str) = 1 /\ category_str[1] \in StoryCategory
            THEN category_str[1] ELSE "bedtime"
    IN  [raw_input |-> user_input,
         category |-> category,
         characters |-> safe_split_csv(DictGet(parsed, <<"CHARACTERS">>, EmptyText)),
         themes |-> safe_split_csv(DictGet(parsed, <<"THEMES">>, EmptyText)),
         setting |-> OrElse(strip(DictGet(parsed, <<"SETTING">>, EmptyText)),
                            <<"a magical land">>),
         tone |-> normalize_tone(DictGet(parsed, <<"TONE">>, EmptyText))]

\* ------------------------------------------------------------ labels
\* the label a token spells, matched without regard to case ("" when none)
Label(t) ==
    CASE t \in {"TITLE", "Title", "title"} -> "title"
      [] t \in {"STORY", "Story", "story"} -> "story"
      [] t \in {"MORAL", "Moral", "moral"} -> "moral"
      [] t \in {"FEEDBACK", "Feedback", "feedback"} -> "feedback"
      [] t \in {"SUGGESTIONS", "Suggestions", "suggestions"} -> "suggestions"
      [] t \in {"CONTINUATION", "Continuation", "continuation"} -> "continuation"
      [] t \in {"CHOICE_1", "Choice_1", "choice_1"} -> "choice_1"
      [] t \in {"CHOICE_2", "Choice_2", "choice_2"} -> "choice_2"
      [] t \in {"OVERALL_SCORE", "OVERALL SCORE", "OVERALLSCORE", "Overall Score",
                "overall_score"} -> "overall_score"
      [] t \in {"AGE_APPROPRIATENESS", "Age Appropriateness"} -> "age_appropriateness"
      [] t \in {"ENGAGEMENT", "Engagement"} -> "engagement"
      [] t \in {"MORAL_CLARITY", "Moral Clarity"} -> "moral_clarity"
      [] t \in {"STORY_STRUCTURE", "Story Structure"} -> "story_structure"
      [] t \in {"LANGUAGE_QUALITY", "Language Quality"} -> "language_quality"
      [] OTHER -> ""

\* index of the first token spelling label l (0 when none): re.search
FirstLabel(s, l) ==
    LET S == {k \in 1..Len(s) : Label(s[k]) = l}
    IN  IF S = {} THEN 0 ELSE MinOf(S)

\* first index >= p of a line break (Len(s)+1 when none): where .*? stops
LineEnd(s, p) ==
    LET S == {k \in p..Len(s) : s[k] = NL}
    IN  IF S = {} THEN Len(s) + 1 ELSE MinOf(S)

\* whether $ (no MULTILINE) matches before index q
AtDollar(s, q) == q = Len(s) + 1 \/ (q = Len(s) /\ s[q] = NL)

\* whether label l followed by \s*: stands at index q
LabelColonAt(s, q, l) ==
    /\ q <= Len(s)
    /\ Label(s[q]) = l
    /\ SkipSpace(s, q + 1) <= Len(s)
    /\ s[SkipSpace(s, q + 1)] = ":"

\* first index q >= p with (?=label\s*:|$): where a lazy group before it stops
LazyEnd(s, p, l) ==
    MinOf({q \in p..(Len(s) + 1) : LabelColonAt(s, q, l) \/ AtDollar(s, q)})

\* str.replace(old, ""), old not empty
RECURSIVE remove(_, _)
remove(s, old) ==
    LET n == Len(old)
        S == {k \in 1..(Len(s) - n + 1) : SubSeq(s, k, k + n - 1) = old}
    IN  IF n = 0 \/ S = {} THEN s
        ELSE Upto(s, MinOf(S) - 1) \o remove(From(s, MinOf(S) + n), old)

\* the value int() gives a run of digit tokens
DigitVal(t) ==
    CASE t = "0" -> 0 [] t = "1" -> 1 [] t = "2" -> 2 [] t = "3" -> 3
      [] t = "4" -> 4 [] t = "5" -> 5 [] t = "6" -> 6 [] t = "7" -> 7
      [] t = "8" -> 8 [] t = "9" -> 9

RECURSIVE IntOf(_)
IntOf(ds) ==
    IF ds = << >> THEN 0
    ELSE IntOf(Upto(ds, Len(ds) - 1)) * 10 + DigitVal(ds[Len(ds)])

\* str(n) of a natural number: its decimal digits
RECURSIVE str(_)
str(n) ==
    LET d == CHOOSE t \in {"0", "1", "2", "3", "4", "5", "6", "7", "8", "9"} :
                 DigitVal(t) = n % 10
    IN  IF n < 10 THEN << d >> ELSE str(n \div 10) \o << d >>

\* ------------------------------------------------------------ story shape
Story(title, content, moral, version) ==
    [title |-> title, content |-> content, moral |-> moral, version |-> version]

\* parse_story_response: <<title, content, moral>>
parse_story_response(response, fallback_title) ==
    LET text == response
        ti == FirstLabel(text, "title")
        tp == SkipSep(text, ti + 1)
        title_g1 == SubSeq(text, tp, LineEnd(text, tp) - 1)
        title_g0 == SubSeq(text, ti, LineEnd(text, tp) - 1)
        mi == FirstLabel(text, "moral")
        mp == SkipSep(text, mi + 1)
        mq == MinOf({q \in mp..(Len(text) + 1) : AtDollar(text, q)})
        moral_g1 == SubSeq(text, mp, mq - 1)
        moral_g0 == SubSeq(text, mi, mq - 1)
        si == FirstLabel(text, "story")
        spos == SkipSep(text, si + 1)
        story_g1 == SubSeq(text, spos, LazyEnd(text, spos, "moral") - 1)
        title == IF ti # 0 /\ strip(title_g1) # EmptyText
                 THEN strip(title_g1) ELSE fallback_title
        moral == IF mi # 0 THEN strip(moral_g1) ELSE EmptyText
        c0 == IF ti # 0 THEN remove(text, title_g0) ELSE text
        c1 == IF mi # 0 THEN remove(c0, moral_g0) ELSE c0
        content == IF si # 0 /\ strip(story_g1) # EmptyText
                   THEN strip(story_g1) ELSE strip(c1)
        unlabelled == IF content # EmptyText /\ Label(content[1]) = "story"
                      THEN From(content, SkipSep(content, 2)) ELSE content
    IN  << title, strip(unlabelled), moral >>

\* format_story_for_context
format_story_for_context(story) ==
    <<"TITLE", ":", SP>> \o story.title \o <<NL, "STORY", ":", NL>>
    \o story.content \o <<NL, "MORAL", ":", SP>> \o story.moral
    \o <<NL, "VERSION", ":", SP>> \o str(story.version)

\* ------------------------------------------------------------ feedback shape
JudgeFeedback(overall, age, eng, moral, struct, lang, feedback, suggestions) ==
    [overall_score |-> overall, age_appropriateness |-> age, engagement |-> eng,
     moral_clarity |-> moral, story_structure |-> struct,
     language_quality |-> lang, feedback |-> feedback,
     suggestions |-> suggestions]

\* the end of the run of digits that starts at p: (\d+)
DigitsEnd(s, p) ==
    LET S == {k \in p..Len(s) : ~IsDigit(s[k])}
    IN  IF S = {} THEN Len(s) + 1 ELSE MinOf(S)

\* find_score of parse_judge_response: label\s*:?\s*(\d+), first match
find_score(text, l, default) ==
    LET M == {k \in 1..Len(text) :
                 /\ Label(text[k]) = l
                 /\ SkipSep(text, k + 1) <= Len(text)
                 /\ IsDigit(text[SkipSep(text, k + 1)])}
        p == SkipSep(text, MinOf(M) + 1)
    IN  IF M = {} THEN default
        ELSE clamp_int(IntOf(SubSeq(text, p, DigitsEnd(text, p) - 1)), 1, 10, default)

IsBullet(t) == t \in {"-", "*"}

\* re.findall(r"[-*]\s*(.+)", text) from index i on
RECURSIVE bullet_lines(_, _)
bullet_lines(text, i) ==
    LET S == {k \in i..Len(text) :
                 IsBullet(text[k]) /\ SkipSpace(text, k + 1) <= Len(text)}
        w == SkipSpace(text, MinOf(S) + 1)
        e == LineEnd(text, w)
    IN  IF S = {} THEN << >>
        ELSE << SubSeq(text, w, e - 1) >> \o bullet_lines(text, e)

\* parse_judge_response
parse_judge_response(response) ==
    LET text == response
        fi == FirstLabel(text, "feedback")
        fp == SkipSep(text, fi + 1)
        feedback == IF fi = 0 THEN EmptyText
                    ELSE strip(SubSeq(text, fp, LazyEnd(text, fp, "suggestions") - 1))
        gi == FirstLabel(text, "suggestions")
        gp == SkipSep(text, gi + 1)
        gq == MinOf({q \in gp..(Len(text) + 1) : AtDollar(text, q)})
        suggestions_text == strip(SubSeq(text, gp, gq - 1))
        bullets == StripKeep(bullet_lines(suggestions_text, 1))
        suggestions ==
            IF gi = 0 THEN << >>
            ELSE IF bullets = << >> /\ suggestions_text # EmptyText
                 THEN << suggestions_text >> ELSE bullets
    IN  JudgeFeedback(find_score(text, "overall_score", 5),
                      find_score(text, "age_appropriateness", 5),
                      find_score(text, "engagement", 5),
                      find_score(text, "moral_clarity", 5),
                      find_score(text, "story_structure", 5),
                      find_score(text, "language_quality", 5),
                      feedback, suggestions)

\* format_feedback_for_context: the block's fields, in the order it prints them
format_feedback_for_context(feedback, round_num) ==
    [round |-> round_num,
     scores |-> << feedback.overall_score, feedback.age_appropriateness,
                   feedback.engagement, feedback.moral_clarity,
                   feedback.story_structure, feedback.language_quality >>,
     feedback |-> feedback.feedback,
     suggestions |-> IF feedback.suggestions # << >> THEN feedback.suggestions
                     ELSE << <<"(no suggestions returned)">> >>]

\* a variant that takes the notes from the first judgement
MutImprovementContext(history) ==
    IF history = << >>
    THEN [scores |-> << >>, feedback |-> EmptyText, suggestions |-> << >>]
    ELSE LET latest == history[1]
         IN  [scores |-> << latest.overall_score, latest.age_appropriateness,
                            latest.engagement, latest.moral_clarity,
                            latest.story_structure, latest.language_quality >>,
              feedback |-> latest.feedback,
              suggestions |->
                  IF latest.suggestions # << >> THEN latest.suggestions
                  ELSE << <<"Improve overall clarity and engagement.">> >>]

\* build_improvement_context ("" without history: a block of empty fields)
build_improvement_context(history) ==
    IF history = << >>
    THEN [scores |-> << >>, feedback |-> EmptyText, suggestions |-> << >>]
    ELSE LET latest == history[Len(history)]
         IN  [scores |-> << latest.overall_score, latest.age_appropriateness,
                            latest.engagement, latest.moral_clarity,
                            latest.story_structure, latest.language_quality >>,
              feedback |-> latest.feedback,
              suggestions |->
                  IF latest.suggestions # << >> THEN latest.suggestions
                  ELSE << <<"Improve overall clarity and engagement.">> >>]

\* ------------------------------------------------------------ choice shape
\* re.search(label\s*:\s*(.+)) and .group(1).strip(), "" without a match
choice_text(text, l) ==
    LET M == {k \in 1..Len(text) :
                 /\ Label(text[k]) = l
                 /\ SkipSpace(text, k + 1) <= Len(text)
                 /\ text[SkipSpace(text, k + 1)] = ":"}
        w == SkipSpace(text, SkipSpace(text, MinOf(M) + 1) + 1)
    IN  IF M = {} \/ w > Len(text) THEN EmptyText
        ELSE strip(SubSeq(text, w, LineEnd(text, w) - 1))

\* whether re.match(r"^\s*[12][\)\.]\s*", ln) matches the line
IsNumbered(ln) ==
    LET p == SkipSpace(ln, 1)
    IN  /\ p + 1 <= Len(ln)
        /\ ln[p] \in {"1", "2"}
        /\ ln[p + 1] \in {")", "."}

\* re.sub(r"^\s*[12][\)\.]\s*", "", ln).strip() of a numbered line
Unnumbered(ln) == strip(From(ln, SkipSpace(ln, SkipSpace(ln, 1) + 2)))

\* parse_choice_proposal: <<c1, c2>>
parse_choice_proposal(text) ==
    LET m1 == choice_text(text, "choice_1")
        m2 == choice_text(text, "choice_2")
        lines == StripKeep(splitlines(text))
        marked == SelectSeq(lines, IsNumbered)
        numbered == [i \in 1..Len(marked) |-> Unnumbered(marked[i])]
        use == (m1 = EmptyText \/ m2 = EmptyText) /\ Len(numbered) >= 2
        c1 == IF use THEN numbered[1] ELSE m1
        c2 == IF use THEN numbered[2] ELSE m2
    IN  << OrElse(c1, <<"Follow a trail of twinkling lights to see where it leads.">>),
           OrElse(c2, <<"Ask a friendly neighbor for help and a cozy hint.">>) >>

\* ------------------------------------------------------------ continuation shape
\* parse_continuation_response: <<continuation, moral>>
parse_continuation_response(text) ==
    LET t == text
        ci == FirstLabel(t, "continuation")
        cp == SkipColon(t, SkipSpace(t, ci + 1))
        cont_g1 == SubSeq(t, cp, LazyEnd(t, cp, "moral") - 1)
        mi == FirstLabel(t, "moral")
        mp == SkipColon(t, SkipSpace(t, mi + 1))
        c0 == IF ci # 0 /\ strip(cont_g1) # EmptyText THEN strip(cont_g1) ELSE strip(t)
        c1 == IF c0 # EmptyText /\ Label(c0[1]) = "continuation"
              THEN From(c0, SkipColon(c0, SkipSpace(c0, 2))) ELSE c0
    IN  << strip(c1), IF mi # 0 THEN strip(From(t, mp)) ELSE EmptyText >>

\* ------------------------------------------------------------ state
VARIABLES
    pc,           \* where the program stands: a call site waiting in call_model
                  \* ("analyze", "draft", "judge", "refine", "modify", "propose",
                  \* "continue"), or "idea", "build", "menu", "pick", "exit"
    phase,        \* call_model: "idle", "inflight", "sleeping", "returned", "raised"
    attempt,      \* call_model: the loop variable attempt
    last_err,     \* call_model: last_err
    prompt,       \* call_model: what the messages are built from
    response,     \* the caller's response: what call_model returned
    exc,          \* the exception in flight
    io,           \* the remote attempts and the sleeps of this call_model, in order
    picked,       \* main: user_input, category, tone, setting
    analyzed,     \* build_request_from_user_choices: analyzed
    request,      \* main: request
    caller,       \* main's call of generate_and_refine_story: "generate", "regenerate"
    story,        \* generate_and_refine_story: story
    history,      \* generate_and_refine_story: history
    iteration,    \* generate_and_refine_story: iteration
    main_story,   \* main: story
    main_history, \* main: history
    current,      \* run_interactive_choice_mode: current
    step,         \* run_interactive_choice_mode: step
    options,      \* run_interactive_choice_mode: <<c1, c2>>
    shown,        \* main: the error its handler printed for the last operation
    calls,        \* the call sites of the gateway calls of the operation, in order
    returned,     \* how many of them have returned
    ideas,        \* story ideas entered so far
    ops           \* menu operations 3, 4 and 6 started so far

gwvars == << phase, attempt, last_err, prompt, response, exc, io >>
loopvars == << story, history, iteration >>
choicevars == << current, step, options >>
sessionvars == << main_story, main_history >>
reqvars == << picked, analyzed, request >>
countvars == << ideas, ops >>
vars == << pc, gwvars, reqvars, caller, loopvars, sessionvars, choicevars, shown,
           calls, returned, countvars >>

\* ------------------------------------------------------------ bounds and inputs
\* story ideas per run of main, and menu operations 3/4/6 per run
MaxIdeas == 1
MaxOps == 1
\* lines of an analyzer response
MaxLines == 2

\* what a failed remote attempt raises
Errors == {"timeout", "rate limit"}

\* ------------------------------------------------------------ values
\* message.content of a remote response: a text, or None
Content(t) == [present |-> TRUE, text |-> t]
Absent == [present |-> FALSE, text |-> EmptyText]

\* the values of the variables that hold nothing yet
NoStory == Story(EmptyText, EmptyText, EmptyText, 0)
NoRequest ==
    [raw_input |-> EmptyText, category |-> "", characters |-> << >>,
     themes |-> << >>, setting |-> EmptyText, tone |-> EmptyText]
NoPick ==
    [user_input |-> EmptyText, category |-> "", tone |-> EmptyText,
     setting |-> EmptyText]
NoError == [type |-> "", attempts |-> 0, last_err |-> None]
NoPrompt == [kind |-> ""]
NoOptions == << EmptyText, EmptyText >>

\* one entry of io
Event(kind, k, content, err, tenths) ==
    [kind |-> kind, attempt |-> k, content |-> content, err |-> err,
     tenths |-> tenths]

\* ------------------------------------------------------------ call_model
\* a variant that turns an absent content into the text "None"
MutContentOrEmpty(content) == IF content.present THEN content.text ELSE <<"None">>

\* content or ""
ContentOrEmpty(content) == IF content.present THEN content.text ELSE EmptyText

\* a variant that also sleeps after the last attempt
MutRetryAfter(k) == k <= API_MAX_RETRIES

\* if attempt < API_MAX_RETRIES
RetryAfter(k) == k < API_MAX_RETRIES

\* for attempt in range(1, API_MAX_RETRIES + 1): whether a value follows k
HasNextAttempt(k) == k + 1 <= API_MAX_RETRIES

\* API_RETRY_BACKOFF_SECONDS * attempt, in tenths of a second
Backoff(k) == API_RETRY_BACKOFF_TENTHS * k

\* a variant that keeps the first error
MutNextLastErr(prev, e) == IF prev = None THEN e ELSE prev

\* last_err = e
NextLastErr(prev, e) == e

\* RuntimeError(f"OpenAI API call failed after {API_MAX_RETRIES} attempts: {last_err}")
Exhausted(err) == [type |-> "RuntimeError", attempts |-> API_MAX_RETRIES, last_err |-> err]

\* a variant whose attempts count from 0
MutCallModel(site, p, log) ==
    /\ pc' = site
    /\ prompt' = p
    /\ attempt' = 0
    /\ last_err' = None
    /\ phase' = "inflight"
    /\ response' = EmptyText
    /\ exc' = NoError
    /\ io' = << >>
    /\ calls' = Append(log, site)

\* call_model is entered from call site `site` and issues its first attempt;
\* log holds the operation's earlier gateway calls
call_model(site, p, log) ==
    /\ pc' = site
    /\ prompt' = p
    /\ attempt' = 1
    /\ last_err' = None
    /\ phase' = "inflight"
    /\ response' = EmptyText
    /\ exc' = NoError
    /\ io' = << >>
    /\ calls' = Append(log, site)

\* call_model is left and its caller has used what it returned or raised;
\* prompt and io keep the record of the last call until the next one
GatewayIdle ==
    /\ attempt' = 0
    /\ last_err' = None
    /\ phase' = "idle"
    /\ response' = EmptyText
    /\ exc' = NoError
    /\ UNCHANGED << prompt, io >>

\* a variant that keeps the content and returns it after the for loop only
MutAttemptReturns(content) ==
    /\ phase = "inflight"
    /\ response' = ContentOrEmpty(content)
    /\ io' = Append(io, Event("ok", attempt, content, None, 0))
    /\ IF HasNextAttempt(attempt)
       THEN attempt' = attempt + 1 /\ phase' = "inflight" /\ returned' = returned
       ELSE attempt' = attempt /\ phase' = "returned" /\ returned' = returned + 1
    /\ UNCHANGED << pc, last_err, prompt, exc, reqvars, caller, loopvars,
                    sessionvars, choicevars, shown, calls, countvars >>

\* the remote attempt succeeds: return content or ""
AttemptReturns(content) ==
    /\ phase = "inflight"
    /\ response' = ContentOrEmpty(content)
    /\ phase' = "returned"
    /\ io' = Append(io, Event("ok", attempt, content, None, 0))
    /\ returned' = returned + 1
    /\ UNCHANGED << pc, attempt, last_err, prompt, exc, reqvars, caller, loopvars,
                    sessionvars, choicevars, shown, calls, countvars >>

\* the remote attempt raises e: sleep before the next attempt, or give up
AttemptRaises(e) ==
    /\ phase = "inflight"
    /\ last_err' = NextLastErr(last_err, e)
    /\ IF RetryAfter(attempt)
       THEN /\ phase' = "sleeping"
            /\ io' = io \o << Event("err", attempt, Absent, e, 0),
                              Event("sleep", attempt, Absent, None, Backoff(attempt)) >>
            /\ exc' = exc
       ELSE /\ phase' = "raised"
            /\ io' = Append(io, Event("err", attempt, Absent, e, 0))
            /\ exc' = Exhausted(last_err')
    /\ UNCHANGED << pc, attempt, prompt, response, reqvars, caller, loopvars,
                    sessionvars, choicevars, shown, calls, returned, countvars >>

\* time.sleep returns: the next attempt, or the end of the for loop
WakeUp ==
    /\ phase = "sleeping"
    /\ IF HasNextAttempt(attempt)
       THEN /\ attempt' = attempt + 1
            /\ phase' = "inflight"
            /\ exc' = exc
       ELSE /\ attempt' = attempt
            /\ phase' = "raised"
            /\ exc' = Exhausted(last_err)
    /\ UNCHANGED << pc, last_err, prompt, response, io, reqvars, caller, loopvars,
                    sessionvars, choicevars, shown, calls, returned, countvars >>

\* ------------------------------------------------------------ prompts
analyze_prompt(user_input) == [kind |-> "analyze", user_input |-> user_input]

generate_prompt(req) == [kind |-> "generate", request |-> req]

\* a variant that passes on the latest feedback only
MutJudgePrompt(st, req, round_num, hist) ==
    [kind |-> "judge", round_num |-> round_num, raw_input |-> req.raw_input,
     category |-> req.category, tone |-> req.tone,
     story |-> format_story_for_context(st),
     round_context |-> IF round_num = 1 THEN "first draft"
                       ELSE IF round_num > 1 THEN "revision" ELSE "",
     prior |-> IF hist = << >> THEN << >>
               ELSE << format_feedback_for_context(hist[Len(hist)], 1) >>]

\* judge_story, up to its call of call_model
judge_prompt(st, req, round_num, hist) ==
    [kind |-> "judge", round_num |-> round_num, raw_input |-> req.raw_input,
     category |-> req.category, tone |-> req.tone,
     story |-> format_story_for_context(st),
     round_context |-> IF round_num = 1 THEN "first draft"
                       ELSE IF round_num > 1 THEN "revision" ELSE "",
     prior |-> [i \in 1..Len(hist) |-> format_feedback_for_context(hist[i], i)]]

\* refine_story, up to its call of call_model
refine_prompt(st, req, hist) ==
    [kind |-> "refine", category |-> req.category, tone |-> req.tone,
     setting |-> req.setting, story |-> format_story_for_context(st),
     improvement |-> build_improvement_context(hist)]

\* apply_user_modification, up to its call of call_model
modify_prompt(modification, st, req) ==
    [kind |-> "modify", user_feedback |-> modification, category |-> req.category,
     tone |-> req.tone, setting |-> req.setting,
     story |-> format_story_for_context(st)]

\* propose_next_choices, up to its call of call_model
propose_prompt(st, req, step_num, total_steps) ==
    [kind |-> "propose", step_num |-> step_num, total_steps |-> total_steps,
     category |-> req.category, tone |-> req.tone, setting |-> req.setting,
     story |-> format_story_for_context(st)]

\* generate_continuation, up to its call of call_model
continue_prompt(st, req, chosen_option, step_num, total_steps) ==
    [kind |-> "continue", story |-> format_story_for_context(st),
     chosen_option |-> chosen_option, is_final |-> step_num >= total_steps,
     category |-> req.category]

\* ------------------------------------------------------------ main: a new idea
\* main's category_map, tone_map and setting_map with their defaults
category_of(choice) ==
    CASE choice = <<"1">> -> "adventure" [] choice = <<"2">> -> "fantasy"
      [] choice = <<"3">> -> "animal" [] choice = <<"4">> -> "friendship"
      [] choice = <<"5">> -> "bedtime" [] choice = <<"6">> -> "educational"
      [] choice = <<"7">> -> "funny" [] OTHER -> "bedtime"

tone_of(choice) ==
    CASE choice = <<"1">> -> <<"whimsical">> [] choice = <<"2">> -> <<"exciting">>
      [] choice = <<"3">> -> <<"calming">> [] choice = <<"4">> -> <<"humorous">>
      [] choice = <<"5">> -> <<"heartwarming">> [] choice = <<"6">> -> <<"inspiring">>
      [] OTHER -> <<"whimsical">>

setting_of(choice) ==
    CASE choice = <<"1">> -> <<"a magical forest with enchanted trees">>
      [] choice = <<"2">> -> <<"under the sea with colorful coral reefs">>
      [] choice = <<"3">> -> <<"a cozy village where everyone is friendly">>
      [] choice = <<"4">> -> <<"outer space among twinkling stars and friendly planets">>
      [] choice = <<"5">> -> <<"a sunny farm with happy animals">>
      [] choice = <<"6">> -> <<"a grand castle in a peaceful kingdom">>
      [] choice = <<"7">> -> <<"a lush jungle full of wonder">>
      [] choice = <<"8">> -> <<"the snowy Arctic with playful polar animals">>
      [] choice = <<"9">> -> <<"a child's bedroom where toys come to life">>
      [] OTHER -> <<"a magical land">>

QuitWords == {<<"quit">>, <<"exit">>, <<"q">>}

\* the frames of the operations that are not running
NoLoopFrame == story' = NoStory /\ history' = << >> /\ iteration' = 0
NoChoiceFrame == current' = NoStory /\ step' = 0 /\ options' = NoOptions

\* main reads an idea and the three menu choices, and calls
\* build_request_from_user_choices, which calls analyze_request
MainIdea(line, category_choice, tone_choice, setting_choice) ==
    /\ pc = "idea"
    /\ LET user_input == strip(line)
       IN  IF lower(user_input) \in QuitWords
           THEN /\ pc' = "exit"
                /\ UNCHANGED << gwvars, reqvars, calls, returned, shown, ideas >>
           ELSE IF user_input = EmptyText
           THEN UNCHANGED << pc, gwvars, reqvars, calls, returned, shown, ideas >>
           ELSE /\ ideas < MaxIdeas
                /\ ideas' = ideas + 1
                /\ picked' = [user_input |-> user_input,
                              category |-> category_of(strip(category_choice)),
                              tone |-> tone_of(strip(tone_choice)),
                              setting |-> setting_of(strip(setting_choice))]
                /\ call_model("analyze", analyze_prompt(user_input), << >>)
                /\ returned' = 0
                /\ shown' = NoError
                /\ UNCHANGED << analyzed, request >>
    /\ UNCHANGED << caller, loopvars, sessionvars, choicevars, ops >>

\* analyze_request returns to build_request_from_user_choices
AnalyzeReturns ==
    /\ pc = "analyze" /\ phase = "returned"
    /\ analyzed' = analyze_request(picked.user_input, response)
    /\ pc' = "build"
    /\ GatewayIdle
    /\ UNCHANGED << picked, request, caller, loopvars, sessionvars, choicevars,
                    shown, calls, returned, countvars >>

\* a variant that builds the request from the operator's choices alone
MutBuildRequest(an, category, tone, setting) ==
    [raw_input |-> an.raw_input, category |-> category, characters |-> << >>,
     themes |-> << >>, setting |-> OrElse(strip(setting), an.setting),
     tone |-> normalize_tone(tone)]

\* build_request_from_user_choices, after analyze_request
build_request_from_user_choices(an, category, tone, setting) ==
    [an EXCEPT !.category = category,
               !.tone = normalize_tone(tone),
               !.setting = OrElse(strip(setting), an.setting)]

\* main's fallback request
fallback_request(pk) ==
    [raw_input |-> pk.user_input, category |-> pk.category, characters |-> << >>,
     themes |-> << >>, setting |-> pk.setting, tone |-> normalize_tone(pk.tone)]

\* main calls generate_and_refine_story, which calls generate_story
StartLoop(req, from) ==
    /\ caller' = from
    /\ NoLoopFrame
    /\ call_model("draft", generate_prompt(req), << >>)
    /\ returned' = 0
    /\ shown' = NoError

\* the overrides are applied and main starts the loop
BuildRequest ==
    /\ pc = "build"
    /\ request' = build_request_from_user_choices(analyzed, picked.category,
                                                  picked.tone, picked.setting)
    /\ analyzed' = NoRequest
    /\ picked' = NoPick
    /\ StartLoop(request', "generate")
    /\ UNCHANGED << sessionvars, choicevars, countvars >>

\* analyze_request fails: main prints the error and builds the fallback request
AnalyzeFails ==
    /\ pc = "analyze" /\ phase = "raised"
    /\ request' = fallback_request(picked)
    /\ analyzed' = NoRequest
    /\ picked' = NoPick
    /\ caller' = "generate"
    /\ NoLoopFrame
    /\ call_model("draft", generate_prompt(request'), << >>)
    /\ returned' = 0
    /\ shown' = exc
    /\ UNCHANGED << sessionvars, choicevars, countvars >>

\* ------------------------------------------------------------ the loop
\* a variant that never stops early
MutStopNever(feedback) == FALSE

\* a variant that stops above the threshold only
MutStopAtThreshold(feedback) == feedback.overall_score > JUDGE_THRESHOLD

\* if feedback.overall_score >= JUDGE_THRESHOLD
StopAtThreshold(feedback) == feedback.overall_score >= JUDGE_THRESHOLD

\* a variant that stops refining one round earlier
MutMayRefineEarly(i) == i < MAX_REFINEMENT_ITERATIONS - 2

\* a variant that refines after the last round too
MutMayRefine(i) == i < MAX_REFINEMENT_ITERATIONS

\* if iteration < MAX_REFINEMENT_ITERATIONS - 1
MayRefine(i) == i < MAX_REFINEMENT_ITERATIONS - 1

\* a variant with one round more
MutHasNextRound(i) == i + 1 <= MAX_REFINEMENT_ITERATIONS

\* for iteration in range(MAX_REFINEMENT_ITERATIONS): whether a value follows i
HasNextRound(i) == i + 1 < MAX_REFINEMENT_ITERATIONS

\* generate_story, from the gateway's response on
generate_story(resp) ==
    LET r == parse_story_response(resp, <<"Untitled Story">>)
    IN  Story(r[1], r[2], r[3], 1)

\* a variant that keeps the version of the story it replaces
MutRefineStory(st, resp) ==
    LET r == parse_story_response(resp, st.title)
    IN  Story(r[1], r[2], r[3], st.version)

\* refine_story and apply_user_modification, from the gateway's response on
refine_story(st, resp) ==
    LET r == parse_story_response(resp, st.title)
    IN  Story(r[1], r[2], r[3], st.version + 1)

\* generate_and_refine_story returns (st, hist) to main, which shows the story
LoopReturns(st, hist) ==
    /\ main_story' = st
    /\ main_history' = hist
    /\ NoLoopFrame
    /\ pc' = "menu"
    /\ GatewayIdle
    /\ calls' = calls

\* the next round of the for loop judges st, or the loop is over
NextRound(st, hist) ==
    IF HasNextRound(iteration)
    THEN /\ story' = st
         /\ history' = hist
         /\ iteration' = iteration + 1
         /\ call_model("judge", judge_prompt(st, request, iteration + 2, hist), calls)
         /\ UNCHANGED sessionvars
    ELSE LoopReturns(st, hist)

\* generate_story returns: the first round judges the draft
DraftReturns ==
    /\ pc = "draft" /\ phase = "returned"
    /\ story' = generate_story(response)
    /\ history' = << >>
    /\ iteration' = 0
    /\ call_model("judge", judge_prompt(story', request, 1, << >>), calls)
    /\ UNCHANGED << reqvars, caller, sessionvars, choicevars, shown, returned,
                    countvars >>

\* judge_story returns: stop, refine, or go on
JudgeReturns ==
    /\ pc = "judge" /\ phase = "returned"
    /\ LET feedback == parse_judge_response(response)
           hist == Append(history, feedback)
       IN  IF StopAtThreshold(feedback)
           THEN LoopReturns(story, hist)
           ELSE IF MayRefine(iteration)
           THEN /\ history' = hist
                /\ call_model("refine", refine_prompt(story, request, hist), calls)
                /\ UNCHANGED << story, iteration, sessionvars >>
           ELSE NextRound(story, hist)
    /\ UNCHANGED << reqvars, caller, choicevars, shown, returned, countvars >>

\* refine_story returns: the next round judges the new version
RefineReturns ==
    /\ pc = "refine" /\ phase = "returned"
    /\ NextRound(refine_story(story, response), history)
    /\ UNCHANGED << reqvars, caller, choicevars, shown, returned, countvars >>

\* a variant whose loop catches the exception and repeats the call
MutGenerateFails ==
    /\ pc \in {"draft", "judge", "refine"} /\ phase = "raised"
    /\ call_model(pc, prompt, calls)
    /\ UNCHANGED << reqvars, caller, loopvars, sessionvars, choicevars, shown,
                    returned, countvars >>

\* call_model fails in the loop: the exception leaves generate_and_refine_story
\* and main's handler prints it and goes on (lines 924-926 and 1012-1014)
GenerateFails ==
    /\ pc \in {"draft", "judge", "refine"} /\ phase = "raised"
    /\ shown' = exc
    /\ NoLoopFrame
    /\ pc' = IF caller = "generate" THEN "idea" ELSE "menu"
    /\ GatewayIdle
    /\ UNCHANGED << reqvars, caller, sessionvars, choicevars, calls, returned,
                    countvars >>

\* ------------------------------------------------------------ main: the menu
\* what open() raises when the story cannot be saved
SaveError == [type |-> "OSError", attempts |-> 0, last_err |-> None]

\* "1" finish, "2" listen, "5" start over, anything else but "3", "4", "6":
\* no operation of the core runs
MenuPlain(line) ==
    /\ pc = "menu"
    /\ strip(line) \notin {<<"3">>, <<"4">>, <<"6">>}
    /\ pc' = CASE strip(line) = <<"1">> -> "exit"
               [] strip(line) \in {<<"2">>, <<"5">>} -> "idea"
               [] OTHER -> "menu"
    /\ UNCHANGED << gwvars, reqvars, caller, loopvars, sessionvars, choicevars,
                    shown, calls, returned, countvars >>

\* "3": request changes; apply_user_modification calls call_model
MenuModify(line) ==
    /\ pc = "menu"
    /\ IF strip(line) = EmptyText
       THEN UNCHANGED << pc, gwvars, shown, calls, returned, ops >>
       ELSE /\ ops < MaxOps
            /\ ops' = ops + 1
            /\ call_model("modify", modify_prompt(strip(line), main_story, request),
                          << >>)
            /\ returned' = 0
            /\ shown' = NoError
    /\ UNCHANGED << reqvars, caller, loopvars, sessionvars, choicevars, ideas >>

\* apply_user_modification returns the next version to main
ModifyReturns ==
    /\ pc = "modify" /\ phase = "returned"
    /\ main_story' = refine_story(main_story, response)
    /\ pc' = "menu"
    /\ GatewayIdle
    /\ UNCHANGED << reqvars, caller, loopvars, main_history, choicevars, shown,
                    calls, returned, countvars >>

\* apply_user_modification fails: main prints the error and shows the menu
ModifyFails ==
    /\ pc = "modify" /\ phase = "raised"
    /\ shown' = exc
    /\ pc' = "menu"
    /\ GatewayIdle
    /\ UNCHANGED << reqvars, caller, loopvars, sessionvars, choicevars, calls,
                    returned, countvars >>

\* "4": a new version from the same request
MenuRegenerate ==
    /\ pc = "menu"
    /\ ops < MaxOps
    /\ ops' = ops + 1
    /\ StartLoop(request, "regenerate")
    /\ UNCHANGED << reqvars, sessionvars, choicevars, ideas >>

\* ------------------------------------------------------------ choice mode
\* a variant with one step more
MutHasNextStep(k) == k <= CHOICE_MODE_MAX_STEPS

\* for step in range(1, total_steps + 1): whether a value follows k
HasNextStep(k) == k + 1 <= CHOICE_MODE_MAX_STEPS

\* a variant that takes the moral of the continuation even when it is empty
MutCommit(cur, continuation, maybe_moral) ==
    Story(cur.title,
          strip(rstrip(cur.content) \o <<NL, NL>> \o strip(continuation)),
          strip(maybe_moral),
          cur.version + 1)

\* the Story a continuation is committed to
commit(cur, continuation, maybe_moral) ==
    Story(cur.title,
          strip(rstrip(cur.content) \o <<NL, NL>> \o strip(continuation)),
          OrElse(strip(maybe_moral), cur.moral),
          cur.version + 1)

\* a variant that never stops early
MutStopOnMoral(maybe_moral) == FALSE

\* if maybe_moral.strip(): break
StopOnMoral(maybe_moral) == strip(maybe_moral) # EmptyText

\* "6": run_interactive_choice_mode starts and proposes the choices of step 1
MenuChoiceMode ==
    /\ pc = "menu"
    /\ ops < MaxOps
    /\ ops' = ops + 1
    /\ current' = main_story
    /\ step' = 1
    /\ options' = NoOptions
    /\ call_model("propose",
                  propose_prompt(main_story, request, 1, CHOICE_MODE_MAX_STEPS), << >>)
    /\ returned' = 0
    /\ shown' = NoError
    /\ UNCHANGED << reqvars, caller, loopvars, sessionvars, ideas >>

\* a variant that continues with the first option without awaiting a selection
MutProposeReturns ==
    /\ pc = "propose" /\ phase = "returned"
    /\ options' = parse_choice_proposal(response)
    /\ call_model("continue",
                  continue_prompt(current, request, options'[1], step,
                                  CHOICE_MODE_MAX_STEPS),
                  calls)
    /\ UNCHANGED << reqvars, caller, loopvars, sessionvars, current, step, shown,
                    returned, countvars >>

\* propose_next_choices returns: the choices are shown and a pick is awaited
ProposeReturns ==
    /\ pc = "propose" /\ phase = "returned"
    /\ options' = parse_choice_proposal(response)
    /\ pc' = "pick"
    /\ GatewayIdle
    /\ UNCHANGED << reqvars, caller, loopvars, sessionvars, current, step, shown,
                    calls, returned, countvars >>

\* run_interactive_choice_mode returns st to main, which shows it and saves it:
\* main returns, or open() fails and the handler shows the menu again
ChoiceReturns(st, saved) ==
    /\ main_story' = st
    /\ NoChoiceFrame
    /\ GatewayIdle
    /\ pc' = IF saved THEN "exit" ELSE "menu"
    /\ shown' = IF saved THEN shown ELSE SaveError
    /\ calls' = calls
    /\ UNCHANGED main_history

\* a variant that takes every input but a quit word as a selection
MutPickAny(line, saved) ==
    /\ pc = "pick"
    /\ LET pick == lower(strip(line))
       IN  IF pick \in QuitWords
           THEN ChoiceReturns(current, saved)
           ELSE /\ call_model("continue",
                      continue_prompt(current, request,
                                      IF pick = <<"1">> THEN options[1] ELSE options[2],
                                      step, CHOICE_MODE_MAX_STEPS),
                      calls)
                /\ UNCHANGED << sessionvars, choicevars, shown >>
    /\ UNCHANGED << reqvars, caller, loopvars, returned, countvars >>

\* a variant that returns the story choice mode was called with
MutPick(line, saved) ==
    /\ pc = "pick"
    /\ LET pick == lower(strip(line))
       IN  IF pick \in QuitWords
           THEN ChoiceReturns(main_story, saved)
           ELSE IF pick \in {<<"1">>, <<"2">>}
           THEN /\ call_model("continue",
                      continue_prompt(current, request,
                                      IF pick = <<"1">> THEN options[1] ELSE options[2],
                                      step, CHOICE_MODE_MAX_STEPS),
                      calls)
                /\ UNCHANGED << sessionvars, choicevars, shown >>
           ELSE UNCHANGED << pc, gwvars, sessionvars, choicevars, shown, calls >>
    /\ UNCHANGED << reqvars, caller, loopvars, returned, countvars >>

\* the pick is read: quit, 1 or 2, or anything else
Pick(line, saved) ==
    /\ pc = "pick"
    /\ LET pick == lower(strip(line))
       IN  IF pick \in QuitWords
           THEN ChoiceReturns(current, saved)
           ELSE IF pick \in {<<"1">>, <<"2">>}
           THEN /\ call_model("continue",
                      continue_prompt(current, request,
                                      IF pick = <<"1">> THEN options[1] ELSE options[2],
                                      step, CHOICE_MODE_MAX_STEPS),
                      calls)
                /\ UNCHANGED << sessionvars, choicevars, shown >>
           ELSE UNCHANGED << pc, gwvars, sessionvars, choicevars, shown, calls >>
    /\ UNCHANGED << reqvars, caller, loopvars, returned, countvars >>

\* generate_continuation returns: the beat is committed; stop or propose again
ContinueReturns(saved) ==
    /\ pc = "continue" /\ phase = "returned"
    /\ LET r == parse_continuation_response(response)
           new == commit(current, r[1], r[2])
       IN  IF ~StopOnMoral(r[2]) /\ HasNextStep(step)
           THEN /\ current' = new
                /\ step' = step + 1
                /\ options' = NoOptions
                /\ call_model("propose",
                       propose_prompt(new, request, step + 1, CHOICE_MODE_MAX_STEPS),
                       calls)
                /\ UNCHANGED << sessionvars, shown >>
           ELSE ChoiceReturns(new, saved)
    /\ UNCHANGED << reqvars, caller, loopvars, returned, countvars >>

\* a variant that hands main the beats committed before the failure
MutChoiceFails ==
    /\ pc \in {"propose", "continue"} /\ phase = "raised"
    /\ shown' = exc
    /\ main_story' = current
    /\ NoChoiceFrame
    /\ pc' = "menu"
    /\ GatewayIdle
    /\ UNCHANGED << reqvars, caller, loopvars, main_history, calls, returned,
                    countvars >>

\* call_model fails in choice mode: main prints the error and shows the menu
ChoiceFails ==
    /\ pc \in {"propose", "continue"} /\ phase = "raised"
    /\ shown' = exc
    /\ NoChoiceFrame
    /\ pc' = "menu"
    /\ GatewayIdle
    /\ UNCHANGED << reqvars, caller, loopvars, sessionvars, calls, returned,
                    countvars >>

\* ------------------------------------------------------------ the program
Init ==
    /\ pc = "idea"
    /\ phase = "idle" /\ attempt = 0 /\ last_err = None /\ prompt = NoPrompt
    /\ response = EmptyText /\ exc = NoError /\ io = << >>
    /\ picked = NoPick /\ analyzed = NoRequest /\ request = NoRequest
    /\ caller = ""
    /\ story = NoStory /\ history = << >> /\ iteration = 0
    /\ main_story = NoStory /\ main_history = << >>
    /\ current = NoStory /\ step = 0 /\ options = NoOptions
    /\ shown = NoError
    /\ calls = << >> /\ returned = 0
    /\ ideas = 0 /\ ops = 0

\* what the user types
IdeaLines == {<<"a brave dragon">>, <<SP, "Quit">>, <<SP>>}
MenuChoices == {<<"7">>, <<"x">>}
MenuLines == {<<"1">>, <<"2">>, <<"5">>, <<"9">>}
ModificationLines == {<<"make it shorter">>, EmptyText}
PickLines == {<<"1">>, <<"2", SP>>, <<"Quit">>, <<"3">>}

\* what the remote service answers at each call site
AnalyzerReplies ==
    {<<"CATEGORY", ":", SP, "Funny", NL, "CHARACTERS", ":", SP, "w", ",", "x">>}
StoryReplies ==
    {<<"TITLE", ":", SP, "w", NL, "STORY", ":", NL, "x", NL, "MORAL", ":", SP, "y">>}
JudgeReplies ==
    {<<"OVERALL_SCORE", ":", SP, "8", NL, "FEEDBACK", ":", SP, "w">>,
     <<"OVERALL_SCORE", ":", SP, "6", NL, "SUGGESTIONS", ":", NL, "-", SP, "w">>}
ChoiceReplies ==
    {<<"CHOICE_1", ":", SP, "w", NL, "CHOICE_2", ":", SP, "x">>}
ContinuationReplies ==
    {<<"CONTINUATION", ":", NL, "z">>,
     <<"CONTINUATION", ":", NL, "z", NL, "MORAL", ":", SP, "y">>}

Replies(site) ==
    CASE site = "analyze" -> AnalyzerReplies
      [] site \in {"draft", "refine", "modify"} -> StoryReplies
      [] site = "judge" -> JudgeReplies
      [] site = "propose" -> ChoiceReplies
      [] site = "continue" -> ContinuationReplies
      [] OTHER -> {}

\* one run of main
Next ==
    \/ \E t \in Replies(pc) : AttemptReturns(Content(t))
    \/ AttemptRaises("timeout")
    \/ WakeUp
    \/ \E l \in IdeaLines, c \in MenuChoices : MainIdea(l, c, c, c)
    \/ AnalyzeReturns
    \/ AnalyzeFails
    \/ BuildRequest
    \/ DraftReturns
    \/ JudgeReturns
    \/ RefineReturns
    \/ GenerateFails
    \/ \E l \in MenuLines : MenuPlain(l)
    \/ \E l \in ModificationLines : MenuModify(l)
    \/ ModifyReturns
    \/ ModifyFails
    \/ MenuRegenerate
    \/ MenuChoiceMode
    \/ ProposeReturns
    \/ \E l \in PickLines, saved \in BOOLEAN : Pick(l, saved)
    \/ \E saved \in BOOLEAN : ContinueReturns(saved)
    \/ ChoiceFails

Spec == Init /\ [][Next]_vars

\* ------------------------------------------------------------ the loop alone
\* the requests main hands to generate_and_refine_story
LoopRequests ==
    LET pk == [user_input |-> <<"a brave dragon">>, category |-> category_of(<<"7">>),
               tone |-> tone_of(<<"3">>), setting |-> setting_of(<<"x">>)]
    IN  {fallback_request(pk)}

\* main calls generate_and_refine_story for a new idea (line 923)
InitLoop ==
    /\ pc = "draft"
    /\ phase = "inflight" /\ attempt = 1 /\ last_err = None
    /\ \E req \in LoopRequests : request = req /\ prompt = generate_prompt(req)
    /\ response = EmptyText /\ exc = NoError /\ io = << >>
    /\ picked = NoPick /\ analyzed = NoRequest
    /\ caller = "generate"
    /\ story = NoStory /\ history = << >> /\ iteration = 0
    /\ main_story = NoStory /\ main_history = << >>
    /\ current = NoStory /\ step = 0 /\ options = NoOptions
    /\ shown = NoError
    /\ calls = <<"draft">> /\ returned = 0
    /\ ideas = 1 /\ ops = 0

LoopStoryReplies ==
    {<<"TITLE", ":", SP, "w", NL, "STORY", ":", NL, "x", NL, "MORAL", ":", SP, "y">>,
     <<"x", SP, "w">>}
LoopJudgeReplies ==
    {<<"OVERALL_SCORE", ":", SP, "7", NL, "FEEDBACK", ":", SP, "w">>,
     <<"Overall Score", SP, "1", "2", NL, "SUGGESTIONS", ":", NL, "-", SP, "w">>,
     <<"OVERALL_SCORE", ":", SP, "6", NL, "FEEDBACK", ":", SP, "x", NL,
       "SUGGESTIONS", ":", NL, "-", SP, "w">>,
     <<"w">>}

LoopReplies(site) ==
    CASE site \in {"draft", "refine"} -> LoopStoryReplies
      [] site = "judge" -> LoopJudgeReplies
      [] OTHER -> {}

\* a success whose message.content is "" or None
EmptyReplies == {Content(EmptyText), Absent}

NextLoop ==
    \/ \E t \in LoopReplies(pc) : AttemptReturns(Content(t))
    \/ \E c \in EmptyReplies : AttemptReturns(c)
    \/ \E e \in Errors : AttemptRaises(e)
    \/ WakeUp
    \/ DraftReturns
    \/ JudgeReturns
    \/ RefineReturns
    \/ GenerateFails

SpecLoop == InitLoop /\ [][NextLoop]_vars

\* ------------------------------------------------------------ the analyzer alone
AnalyzerLines ==
    {<<"CATEGORY", ":", SP, "Funny">>,
     <<"category", SP, ":", "spooky">>,
     <<"CATEGORY", ":">>,
     <<"Tone", ":", SP, "Calming", SP>>,
     <<"TONE", ":", "spooky">>,
     <<"SETTING", ":", SP, "w">>,
     <<"CHARACTERS", ":", SP, "w", ",", SP, ",", "x">>,
     <<"themes", ":", "w">>,
     <<"w">>,
     <<SP>>}

\* the texts of n lines
RECURSIVE LinesTexts(_)
LinesTexts(n) ==
    IF n = 0 THEN {EmptyText}
    ELSE IF n = 1 THEN AnalyzerLines
    ELSE {l \o <<NL>> \o t : l \in AnalyzerLines, t \in LinesTexts(n - 1)}

AnalyzerTexts == UNION {LinesTexts(n) : n \in 0..MaxLines}

AnalyzeChoices == {<<"7">>, <<"3">>, <<"x">>}

NextAnalyze ==
    \/ pc = "analyze" /\ \E t \in AnalyzerTexts : AttemptReturns(Content(t))
    \/ pc = "analyze" /\ AttemptReturns(Absent)
    \/ pc = "analyze" /\ \E e \in Errors : AttemptRaises(e)
    \/ pc = "analyze" /\ WakeUp
    \/ \E l \in IdeaLines, c, t \in AnalyzeChoices : MainIdea(l, c, t, c)
    \/ AnalyzeReturns
    \/ AnalyzeFails
    \/ BuildRequest

SpecAnalyze == Init /\ [][NextAnalyze]_vars

\* ------------------------------------------------------------ properties
\* the remote attempts of the last call_model, without the sleeps
Attempts == SelectSeq(io, LAMBDA e : e.kind \in {"ok", "err"})

\* how many gateway calls of the operation from the call sites `sites` returned
ReturnedCalls(sites) == Cardinality({k \in 1..returned : calls[k] \in sites})

\* C1: one run of generate_and_refine_story produces at most 5 Story versions,
\* the draft and at most 4 refinements, and when it returns the history holds
\* one entry per judging round that was executed.
C1_AtMostFiveVersions ==
    /\ ReturnedCalls({"draft", "refine"}) <= 5
    /\ ReturnedCalls({"refine"}) <= 4
    /\ story.version <= 5
    /\ main_story.version <= 5
    /\ pc = "menu" =>
          /\ Len(main_history) = ReturnedCalls({"judge"})
          /\ main_story.version = ReturnedCalls({"draft", "refine"})

\* the loop returns after five rounds with the fifth version
C1_Witness ==
    pc = "menu" /\ main_story.version = 5 /\ Len(main_history) = 5

\* C2: the loop stops at round R, the first round whose overall score is at
\* least 7, or round 5: while it runs every earlier score is below 7; when it
\* returns, the last gateway call is the judging of round R, every earlier
\* round scored below 7, round R scored at least 7 or is round 5, no error is
\* shown, and the Story returned is the one that round R judged.
C2_StopsAtFirstPassOrFifth ==
    /\ pc \in {"judge", "refine"} =>
          /\ Len(history) < 5
          /\ \A k \in 1..Len(history) : history[k].overall_score < 7
    /\ pc = "menu" =>
          LET n == Len(main_history)
          IN  /\ n \in 1..5
              /\ \A k \in 1..(n - 1) : main_history[k].overall_score < 7
              /\ main_history[n].overall_score >= 7 \/ n = 5
              /\ returned = Len(calls)
              /\ calls[Len(calls)] = "judge"
              /\ ReturnedCalls({"judge"}) = n
              /\ shown = NoError
              /\ prompt.kind = "judge"
              /\ prompt.round_num = n
              /\ prompt.story = format_story_for_context(main_story)

\* the fifth round scores below 7 and the loop returns
C2_Witness ==
    /\ pc = "menu"
    /\ Len(main_history) = 5
    /\ main_history[5].overall_score < 7
    /\ shown = NoError

\* C3: the history only grows at its end, by the one JudgeFeedback of each
\* judging round, and the judging of round N is given the entries of rounds
\* 1..N-1, in order, each under its round number.
C3_HistoryAppendOnly ==
    /\ [](pc = "judge" =>
            /\ prompt.round_num = Len(history) + 1
            /\ Len(prompt.prior) = Len(history)
            /\ \A k \in 1..Len(history) :
                  prompt.prior[k] = format_feedback_for_context(history[k], k))
    /\ [][(pc \in {"judge", "refine"} /\ pc' \in {"judge", "refine", "menu"}) =>
            LET h == IF pc' = "menu" THEN main_history' ELSE history'
            IN  IF pc = "judge" /\ phase = "returned"
                THEN /\ Len(h) = Len(history) + 1
                     /\ SubSeq(h, 1, Len(history)) = history
                     /\ h[Len(h)] = parse_judge_response(response)
                ELSE h = history]_vars

\* round 5 is being judged with four earlier entries, the first two different
C3_Witness ==
    /\ pc = "judge" /\ phase = "returned"
    /\ Len(history) = 4
    /\ history[1] # history[2]

\* C4: the attempts of one invocation are numbered 1, 2, 3; the invocation
\* raises exactly when all three have failed, and the exhaustion error carries
\* the error of the third attempt and reaches the caller's handler.
C4_ExhaustionAfterThree ==
    LET a == Attempts
        failed == Len(a) = 3 /\ \A k \in 1..3 : a[k].kind = "err"
    IN  /\ Len(a) <= 3
        /\ \A k \in 1..Len(a) : a[k].attempt = k
        /\ phase # "idle" => (phase = "raised" <=> failed)
        /\ phase = "raised" =>
              exc = [type |-> "RuntimeError", attempts |-> 3, last_err |-> a[3].err]
        /\ phase # "raised" => exc = NoError
        /\ (phase = "idle" /\ failed) =>
              shown = [type |-> "RuntimeError", attempts |-> 3, last_err |-> a[3].err]

\* three attempts failed, the first and the third with different errors
C4_Witness ==
    /\ phase = "raised"
    /\ Len(Attempts) = 3
    /\ Attempts[1].err # Attempts[3].err

\* C5: a successful attempt is the last event of its invocation: the
\* invocation returns at once, with the text of that attempt.
C5_SuccessReturnsAtOnce ==
    /\ \A j \in 1..(Len(io) - 1) : io[j].kind # "ok"
    /\ phase # "idle" =>
          (phase = "returned" <=> (io # << >> /\ io[Len(io)].kind = "ok"))
    /\ phase = "returned" =>
          /\ attempt = Len(Attempts)
          /\ io[Len(io)].attempt = attempt
          /\ io[Len(io)].content.present => response = io[Len(io)].content.text

\* the second attempt succeeds after the first failed
C5_Witness ==
    /\ phase = "returned"
    /\ attempt = 2
    /\ Len(Attempts) = 2
    /\ response # EmptyText

\* C6: a sleep follows each failed attempt k < 3 and nothing else, it lasts the
\* base delay times k, every attempt after the first follows a sleep, and
\* nothing follows the failure of attempt 3.
C6_BackoffBetweenAttempts ==
    /\ \A j \in 1..Len(io) :
          /\ io[j].kind = "sleep" =>
                /\ j > 1
                /\ io[j - 1].kind = "err"
                /\ io[j - 1].attempt = io[j].attempt
                /\ io[j].attempt < 3
                /\ io[j].tenths = API_RETRY_BACKOFF_TENTHS * io[j].attempt
          /\ (io[j].kind = "err" /\ io[j].attempt < 3) =>
                j < Len(io) /\ io[j + 1].kind = "sleep"
          /\ (io[j].kind = "err" /\ io[j].attempt >= 3) => j = Len(io)
          /\ (io[j].kind \in {"ok", "err"} /\ j > 1) =>
                /\ io[j - 1].kind = "sleep"
                /\ io[j].attempt = io[j - 1].attempt + 1
    /\ \A i, j \in 1..Len(io) :
          (i < j /\ io[i].kind = "sleep" /\ io[j].kind = "sleep") =>
                io[i].tenths < io[j].tenths
    /\ phase = "sleeping" => io[Len(io)].kind = "sleep"
    /\ phase = "raised" => io[Len(io)].kind = "err"

\* all three attempts failed: a sleep of 1.5 s, then one of 3 s, none at the end
C6_Witness ==
    /\ phase = "raised"
    /\ Len(io) = 5
    /\ io[2].kind = "sleep" /\ io[2].tenths = 15
    /\ io[4].kind = "sleep" /\ io[4].tenths = 30

\* C7: an attempt that succeeds with empty or absent content ends the
\* invocation: it returns the empty text, and nothing is retried or raised.
C7_EmptyContentIsSuccess ==
    \A j \in 1..Len(io) :
        (io[j].kind = "ok" /\ (~io[j].content.present \/ io[j].content.text = EmptyText)) =>
            /\ j = Len(io)
            /\ phase \in {"returned", "idle"}
            /\ exc = NoError
            /\ phase = "returned" => response = EmptyText
            /\ phase = "idle" => shown = NoError

\* the remote call succeeded without content and call_model returned ""
C7_Witness ==
    /\ phase = "returned"
    /\ ~io[Len(io)].content.present
    /\ response = EmptyText

\* C8: when a gateway call is exhausted, the operation that made it is over:
\* every earlier call of the operation had returned, the next step hands the
\* error to main's handler, the operation's frame is gone, nothing it computed
\* reaches main's story or history, and it makes no further gateway call (after
\* analyze_request, the next call is the draft that main asks for).
C8_ExhaustionAborts ==
    /\ [](returned <= Len(calls) /\ Len(calls) <= returned + 1)
    /\ [](phase = "raised" => (exc.type = "RuntimeError" /\ Len(calls) = returned + 1))
    /\ [][phase = "raised" =>
            /\ shown' = exc
            /\ story' = NoStory /\ history' = << >>
            /\ current' = NoStory /\ step' = 0
            /\ analyzed' = NoRequest
            /\ main_story' = main_story /\ main_history' = main_history
            /\ IF pc = "analyze"
               THEN /\ pc' = "draft" /\ calls' = <<"draft">>
                    /\ request'.characters = << >> /\ request'.themes = << >>
               ELSE /\ pc' \in {"idea", "menu"}
                    /\ phase' = "idle"
                    /\ calls' = calls /\ returned' = returned]_vars

\* choice mode was aborted by the failure of a continuation after the first step
C8_Witness ==
    /\ pc = "menu"
    /\ shown.type = "RuntimeError"
    /\ Len(calls) > 2
    /\ calls[Len(calls)] = "continue"
    /\ returned = Len(calls) - 1
    /\ current = NoStory

\* C9: when the loop is aborted while judging or refining, the Story and the
\* history of that moment are what the caller holds afterwards.
C9_PartialResultKept ==
    [][(pc \in {"judge", "refine"} /\ phase = "raised") =>
            (main_story' = story /\ main_history' = history)]_vars

\* the texts after the label `key` in the lines of `text`, in lower case
Named(text, key) ==
    LET lines == split(text, NL)
        Colons(line) == {k \in 1..Len(line) : line[k] = ":"}
    IN  {lower(strip(From(lines[n], MinOf(Colons(lines[n])) + 1))) :
            n \in {m \in 1..Len(lines) :
                     /\ Colons(lines[m]) # {}
                     /\ upper(strip(Upto(lines[m], MinOf(Colons(lines[m])) - 1)))
                            = << key >>}}

\* the text the analyzer's gateway call returned
AnalyzerText == io[Len(io)].content.text

\* C10: analyze_request returns a StoryRequest for every text: its category is
\* one of the 7 categories and its tone one of the 6 tones; a text that names
\* no recognized category gives bedtime and one that names a single category
\* gives that one, a text that names no allowed tone gives whimsical; and the
\* only error of the analyzer's call is the exhaustion of the gateway.
C10_AnalyzerTotal ==
    LET categories == {"adventure", "fantasy", "animal", "friendship", "bedtime",
                       "educational", "funny"}
        tones == {<<"whimsical">>, <<"exciting">>, <<"calming">>, <<"humorous">>,
                  <<"heartwarming">>, <<"inspiring">>}
    IN  /\ pc = "build" =>
              LET cs == Named(AnalyzerText, "CATEGORY")
                  ts == Named(AnalyzerText, "TONE")
              IN  /\ analyzed.category \in categories
                  /\ analyzed.tone \in tones
                  /\ analyzed.raw_input = picked.user_input
                  /\ cs \cap {<< c >> : c \in categories} = {} =>
                        analyzed.category = "bedtime"
                  /\ \A c \in categories : cs = {<< c >>} => analyzed.category = c
                  /\ ts \cap tones = {} => analyzed.tone = <<"whimsical">>
                  /\ \A t \in tones : ts = {t} => analyzed.tone = t
                  /\ shown = NoError
        /\ (pc = "analyze" /\ exc # NoError) =>
              /\ exc.type = "RuntimeError"
              /\ Len(Attempts) = 3
              /\ \A k \in 1..3 : Attempts[k].kind = "err"

\* the analyzer's text names a category and a tone that are not in the lists
C10_Witness ==
    /\ pc = "build"
    /\ Named(AnalyzerText, "CATEGORY") = {<<"spooky">>}
    /\ Named(AnalyzerText, "TONE") = {<<"spooky">>}
    /\ analyzed.category = "bedtime"
    /\ analyzed.tone = <<"whimsical">>


\* C11: build_request_from_user_choices gives the analyzed StoryRequest the
\* operator's category, the operator's tone (one of the 6 tones) and the
\* operator's setting, and leaves the analyzer's raw input, characters and
\* themes as they were.
C11_OverridesFrame ==
    [][pc = "build" =>
          /\ request'.category = picked.category
          /\ request'.tone \in {<<"whimsical">>, <<"exciting">>, <<"calming">>,
                                <<"humorous">>, <<"heartwarming">>, <<"inspiring">>}
          /\ request'.tone = picked.tone
          /\ request'.setting = picked.setting
          /\ request'.raw_input = analyzed.raw_input
          /\ request'.characters = analyzed.characters
          /\ request'.themes = analyzed.themes]_vars

\* the overrides were applied to a request for which the analyzer found characters
C11_Witness ==
    /\ pc = "draft" /\ calls = <<"draft">> /\ shown = NoError
    /\ request.characters = << <<"w">>, <<"x">> >>
    /\ request.category = "funny"
    /\ request.tone = <<"calming">>
    /\ request.setting = <<"a lush jungle full of wonder">>


\* ------------------------------------------------------------ the extractors alone
\* lines of the texts the remote service may answer at call site `site`: lines
\* of the shape the site asks for, well formed or not, and lines of other shapes
ParseLines(site) ==
    {<<"x">>, <<SP>>, <<"MORAL", ":", SP, "y">>}
    \cup
    CASE site = "judge" ->
            {<<"OVERALL_SCORE", ":", SP, "1", "2">>,
             <<"Engagement", SP, "0">>,
             <<"MORAL_CLARITY", ":", SP, "w">>,
             <<"AGE_APPROPRIATENESS", ":", "7", SP, "STORY_STRUCTURE", ":", SP, "3">>,
             <<"LANGUAGE_QUALITY", ":", SP, "9", "w">>,
             <<"FEEDBACK", ":", SP, "w">>,
             <<"SUGGESTIONS", ":", SP, "-", SP, "w">>,
             <<"-", SP, "x">>}
      [] site \in {"draft", "modify"} ->
            {<<"TITLE", ":", SP, "w">>, <<"STORY", ":">>, <<"Title", SP>>}
      [] site = "propose" ->
            {<<"CHOICE_1", ":", SP, "w">>,
             <<"CHOICE_2", ":", SP, "w">>,
             <<"choice_2", SP, ":", "x">>,
             <<"1", ".", SP, "w">>,
             <<"2", ")", "w">>}
      [] site = "continue" ->
            {<<"CONTINUATION", ":", SP, "z">>, <<"Moral", ":", SP>>}
      [] site = "analyze" ->
            {<<"CATEGORY", ":", SP, "Funny">>, <<"CHARACTERS", ":", SP, "w", ",", "x">>}

\* the texts of n lines
RECURSIVE ParseLinesTexts(_, _)
ParseLinesTexts(site, n) ==
    IF n = 0 THEN {EmptyText}
    ELSE IF n = 1 THEN ParseLines(site)
    ELSE {l \o <<NL>> \o t : l \in ParseLines(site), t \in ParseLinesTexts(site, n - 1)}

ParseTexts(site) == UNION {ParseLinesTexts(site, n) : n \in 0..MaxLines}

\* the remote service answers a modification with the story as it was shown
EchoTexts(site, st) ==
    IF site = "modify" THEN {format_story_for_context(st)} ELSE {}

\* the Stories and the history a session holds when a response arrives
ParseStories == {generate_story(t) : t \in StoryReplies \cup {EmptyText}}
ParseHistory ==
    << parse_judge_response(<<"OVERALL_SCORE", ":", SP, "8", NL, "FEEDBACK", ":", SP, "w">>) >>

\* call_model has just returned the text t to one of its callers
InitParse ==
    \E site \in {"analyze", "draft", "judge", "modify", "propose", "continue"},
       st \in ParseStories, req \in LoopRequests :
      \E t \in ParseTexts(site) \cup EchoTexts(site, st) :
        /\ pc = site
        /\ phase = "returned" /\ attempt = 1 /\ last_err = None
        /\ response = t /\ exc = NoError
        /\ io = << Event("ok", 1, Content(t), None, 0) >>
        /\ shown = NoError /\ analyzed = NoRequest
        /\ ideas = 1
        /\ iteration = 0 /\ history = << >>
        /\ pc = "analyze" =>
              /\ picked = [user_input |-> <<"a brave dragon">>,
                           category |-> category_of(<<"7">>),
                           tone |-> tone_of(<<"3">>), setting |-> setting_of(<<"x">>)]
              /\ prompt = analyze_prompt(picked.user_input)
              /\ request = NoRequest /\ caller = ""
              /\ calls = <<"analyze">>
        /\ pc # "analyze" => (picked = NoPick /\ request = req /\ caller = "generate")
        /\ pc = "draft" => (prompt = generate_prompt(req) /\ calls = <<"draft">>)
        /\ pc = "judge" =>
              /\ prompt = judge_prompt(st, req, 1, << >>)
              /\ calls = <<"draft", "judge">>
        /\ story = IF pc = "judge" THEN st ELSE NoStory
        /\ IF pc \in {"modify", "propose", "continue"}
           THEN main_story = st /\ main_history = ParseHistory /\ ops = 1
           ELSE main_story = NoStory /\ main_history = << >> /\ ops = 0
        /\ pc = "modify" =>
              /\ prompt = modify_prompt(<<"make it shorter">>, st, req)
              /\ calls = <<"modify">>
        /\ pc = "propose" =>
              /\ prompt = propose_prompt(st, req, 1, CHOICE_MODE_MAX_STEPS)
              /\ calls = <<"propose">>
              /\ options = NoOptions
        /\ pc = "continue" =>
              /\ options \in {parse_choice_proposal(c) : c \in ChoiceReplies}
              /\ prompt = continue_prompt(st, req, options[1], 1, CHOICE_MODE_MAX_STEPS)
              /\ calls = <<"propose", "continue">>
        /\ pc \notin {"propose", "continue"} => options = NoOptions
        /\ IF pc \in {"propose", "continue"}
           THEN current = st /\ step = 1
           ELSE current = NoStory /\ step = 0
        /\ returned = Len(calls)

\* the caller parses the text and goes on
NextParse ==
    \/ AnalyzeReturns
    \/ DraftReturns
    \/ JudgeReturns
    \/ ModifyReturns
    \/ ProposeReturns
    \/ \E saved \in BOOLEAN : ContinueReturns(saved)

SpecParse == InitParse /\ [][NextParse]_vars


\* the shapes of the records the extractors return
IsText(x) == x \in Seq(STRING)
IsStory(s) ==
    /\ DOMAIN s = {"title", "content", "moral", "version"}
    /\ IsText(s.title) /\ IsText(s.content) /\ IsText(s.moral)
    /\ s.title # EmptyText
    /\ s.version \in Nat
IsFeedback(f) ==
    /\ DOMAIN f = {"overall_score", "age_appropriateness", "engagement",
                   "moral_clarity", "story_structure", "language_quality",
                   "feedback", "suggestions"}
    /\ \A k \in DOMAIN f \ {"feedback", "suggestions"} : f[k] \in Int
    /\ IsText(f.feedback)
    /\ f.suggestions \in Seq(Seq(STRING))
IsRequest(r) ==
    /\ DOMAIN r = {"raw_input", "category", "characters", "themes", "setting", "tone"}
    /\ IsText(r.raw_input) /\ IsText(r.setting) /\ IsText(r.tone)
    /\ r.category \in STRING /\ r.category # ""
    /\ r.setting # EmptyText /\ r.tone # EmptyText
    /\ r.characters \in Seq(Seq(STRING)) /\ r.themes \in Seq(Seq(STRING))

\* C12: whatever text the gateway returned, well formed, malformed or empty,
\* the caller that parses it goes on with a record of the right shape in which
\* every field has a value (a title, a setting, a tone and two options are
\* never empty), and no exception is in flight or shown for it.
C12_ExtractorsTotal ==
    /\ exc = NoError
    /\ shown \in {NoError, SaveError}
    /\ pc = "build" => IsRequest(analyzed)
    /\ pc \in {"judge", "refine"} =>
          (IsStory(story) /\ \A k \in 1..Len(history) : IsFeedback(history[k]))
    /\ pc \in {"menu", "exit"} =>
          (IsStory(main_story) /\ \A k \in 1..Len(main_history) : IsFeedback(main_history[k]))
    /\ pc = "pick" =>
          /\ Len(options) = 2
          /\ IsText(options[1]) /\ options[1] # EmptyText
          /\ IsText(options[2]) /\ options[2] # EmptyText
    /\ (pc = "propose" /\ phase # "returned") => IsStory(current)

\* the empty text was parsed as a choice proposal and as a judge response
C12_Witness ==
    /\ io = << Event("ok", 1, Content(EmptyText), None, 0) >>
    /\ \/ pc = "pick" /\ options[1] # EmptyText
       \/ pc = "refine" /\ Len(history) = 1


\* the number after the first place where label l is followed, after optional
\* white space, an optional colon and optional white space, by digits (-1 when
\* there is no such place)
NumberAfter(text, l) ==
    LET Sep(k, p) ==
            /\ \A i \in (k + 1)..(p - 1) : text[i] = ":" \/ IsSpace(text[i])
            /\ Cardinality({i \in (k + 1)..(p - 1) : text[i] = ":"}) <= 1
        At == {k \in 1..Len(text) :
                  /\ Label(text[k]) = l
                  /\ \E p \in (k + 1)..Len(text) : IsDigit(text[p]) /\ Sep(k, p)}
        k0 == MinOf(At)
        p0 == MinOf({p \in (k0 + 1)..Len(text) : IsDigit(text[p])})
        q0 == MinOf({q \in p0..(Len(text) + 1) : q = Len(text) + 1 \/ ~IsDigit(text[q])})
    IN  IF At = {} THEN -1 ELSE IntOf(SubSeq(text, p0, q0 - 1))

\* the score the claim gives a text for label l
ExpectedScore(text, l) ==
    LET n == NumberAfter(text, l)
    IN  IF n = -1 THEN 5 ELSE IF n > 10 THEN 10 ELSE IF n < 1 THEN 1 ELSE n

ScoreNames ==
    {"overall_score", "age_appropriateness", "engagement", "moral_clarity",
     "story_structure", "language_quality"}

\* C13: every score of every JudgeFeedback of a history is in 1..10, and the
\* JudgeFeedback parsed from a judge response has, for each of the six labels,
\* 5 when the label is absent or not followed by a number and otherwise that
\* number clamped to 1..10; the empty response gives six 5s, no suggestions
\* and an empty feedback text.
C13_ScoresClamped ==
    /\ [](\A k \in 1..Len(history) : \A l \in ScoreNames : history[k][l] \in 1..10)
    /\ [](\A k \in 1..Len(main_history) : \A l \in ScoreNames :
              main_history[k][l] \in 1..10)
    /\ [][(pc = "judge" /\ phase = "returned") =>
            LET h == IF pc' = "menu" THEN main_history' ELSE history'
                f == h[Len(h)]
            IN  /\ \A l \in ScoreNames : f[l] = ExpectedScore(response, l)
                /\ response = EmptyText =>
                      /\ \A l \in ScoreNames : f[l] = 5
                      /\ f.suggestions = << >>
                      /\ f.feedback = EmptyText]_vars

\* a response with the scores 12 and 0 was parsed: 10, 1, and 5 for the rest
C13_Witness ==
    /\ pc = "menu" /\ Len(main_history) = 1
    /\ io[1].content.text = <<"OVERALL_SCORE", ":", SP, "1", "2", NL, "Engagement", SP, "0">>
    /\ main_history[1].overall_score = 10
    /\ main_history[1].engagement = 1
    /\ main_history[1].moral_clarity = 5


\* C14: the two options a choice proposal is parsed to are both non-empty and
\* differ from each other.
C14_TwoDistinctOptions ==
    pc = "pick" =>
        /\ Len(options) = 2
        /\ options[1] # EmptyText
        /\ options[2] # EmptyText
        /\ options[1] # options[2]


\* C19: a well-formed Story that is rendered by format_story_for_context and
\* parsed back by parse_story_response comes back with the same title, the
\* same body and the same moral.
C19_RoundTrip ==
    [][(/\ pc = "modify" /\ phase = "returned"
        /\ response = format_story_for_context(main_story)
        /\ main_story.title # EmptyText
        /\ main_story.content # EmptyText
        /\ main_story.moral # EmptyText) =>
            /\ main_story'.title = main_story.title
            /\ main_story'.content = main_story.content
            /\ main_story'.moral = main_story.moral]_vars


\* ------------------------------------------------------------ choice mode alone
\* what the remote service answers to a proposal and to a continuation
ChoiceModeReplies(site) ==
    CASE site = "propose" -> {<<"CHOICE_1", ":", SP, "w", NL, "CHOICE_2", ":", SP, "x">>}
      [] site = "continue" ->
            {<<"CONTINUATION", ":", NL, "z">>,
             <<"CONTINUATION", ":", NL, "z", NL, "MORAL", ":", SP, "v">>,
             <<SP, "z", NL>>}
      [] OTHER -> {}

\* main calls run_interactive_choice_mode with its story (menu choice 6)
InitChoice ==
    \E st \in ParseStories, req \in LoopRequests :
        /\ pc = "propose"
        /\ phase = "inflight" /\ attempt = 1 /\ last_err = None
        /\ prompt = propose_prompt(st, req, 1, CHOICE_MODE_MAX_STEPS)
        /\ response = EmptyText /\ exc = NoError /\ io = << >>
        /\ picked = NoPick /\ analyzed = NoRequest /\ request = req
        /\ caller = "generate"
        /\ story = NoStory /\ history = << >> /\ iteration = 0
        /\ main_story = st /\ main_history = ParseHistory
        /\ current = st /\ step = 1 /\ options = NoOptions
        /\ shown = NoError
        /\ calls = <<"propose">> /\ returned = 0
        /\ ideas = 1 /\ ops = 1

NextChoice ==
    \/ \E t \in ChoiceModeReplies(pc) : AttemptReturns(Content(t))
    \/ \E c \in EmptyReplies : AttemptReturns(c)
    \/ AttemptRaises("timeout")
    \/ WakeUp
    \/ ProposeReturns
    \/ \E l \in PickLines, saved \in BOOLEAN : Pick(l, saved)
    \/ \E saved \in BOOLEAN : ContinueReturns(saved)
    \/ ChoiceFails

SpecChoice == InitChoice /\ [][NextChoice]_vars


\* whether a continuation response carries a moral: after its first MORAL label,
\* optional white space and an optional colon, something other than white space
MoralProduced(text) ==
    LET S == {k \in 1..Len(text) : Label(text[k]) = "moral"}
        k0 == MinOf(S)
        rest == From(text, k0 + 1)
        T == {i \in 1..Len(rest) : ~IsSpace(rest[i])}
    IN  /\ S # {}
        /\ T # {}
        /\ rest[MinOf(T)] = ":" => T # {MinOf(T)}

\* how many gateway calls of the operation were made from call site `site`
CallsFrom(site) == Cardinality({k \in 1..Len(calls) : calls[k] = site})

\* C15: when the continuation of step k carries a moral, choice mode commits
\* that beat and returns at once: the story main gets is k versions after the
\* one choice mode was called with, k continuations were generated, and no
\* further proposal or continuation is asked for.
C15_StopsOnMoral ==
    [][(pc = "continue" /\ phase = "returned" /\ MoralProduced(response)) =>
          /\ pc' \in {"menu", "exit"}
          /\ phase' = "idle"
          /\ calls' = calls
          /\ returned' = returned
          /\ current' = NoStory
          /\ ReturnedCalls({"continue"}) = step
          /\ main_story'.version = main_story.version + step
          /\ main_story'.version = current.version + 1]_vars

\* a moral came with the continuation of step 2 and choice mode returned
C15_Witness ==
    /\ pc \in {"menu", "exit"}
    /\ calls = <<"propose", "continue", "propose", "continue">>
    /\ returned = 4
    /\ MoralProduced(io[Len(io)].content.text)
    /\ main_story.version = 3
    /\ main_story.moral = <<"v">>

\* C16: one run of choice mode asks for at most 3 proposals and at most 3
\* continuations and commits at most 3 beats; while it runs, the beats
\* committed are one fewer than the step it is at, which is at most 3, so the
\* third committed beat ends the run.
C16_StepCeiling ==
    /\ CallsFrom("propose") <= 3
    /\ CallsFrom("continue") <= 3
    /\ ReturnedCalls({"continue"}) <= 3
    /\ main_story.version <= 4
    /\ pc \in {"propose", "pick", "continue"} =>
          /\ step \in 1..3
          /\ CallsFrom("propose") = step
          /\ CallsFrom("continue") = IF pc = "continue" THEN step ELSE step - 1
          /\ current.version = main_story.version + step - 1

\* three beats were committed without any moral and choice mode returned
C16_Witness ==
    /\ pc \in {"menu", "exit"}
    /\ Len(calls) = 6 /\ returned = 6
    /\ ReturnedCalls({"continue"}) = 3
    /\ ~MoralProduced(io[Len(io)].content.text)
    /\ main_story.moral = EmptyText
    /\ main_story.version = 4

\* C17: while a selection is awaited at step k, current is the Story of the
\* last committed step (the Story choice mode was called with when k = 1) and
\* the last gateway call is the proposal; when choice mode returns from there,
\* main gets exactly that Story and no continuation is generated.
C17_QuitKeepsStory ==
    /\ [](pc = "pick" =>
            /\ step = 1 => current = main_story
            /\ current.version = main_story.version + step - 1
            /\ returned = Len(calls)
            /\ calls[Len(calls)] = "propose"
            /\ CallsFrom("continue") = step - 1)
    /\ [][(pc = "pick" /\ pc' \in {"menu", "exit"}) =>
            /\ main_story' = current
            /\ calls' = calls
            /\ returned' = returned]_vars

\* choice mode was left at the selection of step 2 with the Story of step 1
C17_Witness ==
    /\ pc \in {"menu", "exit"}
    /\ calls = <<"propose", "continue", "propose">>
    /\ returned = 3
    /\ main_story.version = 2
    /\ main_story.content = <<"x", NL, NL, "z">>


\* the Story a step of an operation yields: the operation's next own Story, or
\* the Story main gets when the step ends the operation
Committed(cur, st, p) == IF p \in {"menu", "exit"} THEN st ELSE cur

\* C18 as stated: each commit yields the previous body, a paragraph break and
\* the continuation text, with the moral replaced if one was produced, the
\* title unchanged and the version one higher.
C18_CommitParagraph ==
    [][(pc = "continue" /\ phase = "returned") =>
          LET r == parse_continuation_response(response)
              new == Committed(current', main_story', pc')
          IN  /\ new.content = current.content \o <<NL, NL>> \o strip(r[1])
              /\ new.moral = IF strip(r[2]) # EmptyText THEN strip(r[2])
                             ELSE current.moral
              /\ new.title = current.title
              /\ new.version = current.version + 1]_vars

\* C18, amended: each commit yields a Story whose body starts with the previous
\* body; the paragraph break and the continuation text follow it when both the
\* previous body and the continuation are non-empty, an empty continuation
\* leaves the body as it was and an empty previous body gives the continuation
\* alone; the moral is the produced one if one was produced and the previous
\* one otherwise, the title is unchanged and the version is one higher.
C18_CommitAppends ==
    [][(pc = "continue" /\ phase = "returned") =>
          LET r == parse_continuation_response(response)
              cont == strip(r[1])
              new == Committed(current', main_story', pc')
          IN  /\ new.content =
                    IF cont = EmptyText THEN current.content
                    ELSE IF current.content = EmptyText THEN cont
                    ELSE current.content \o <<NL, NL>> \o cont
              /\ Len(new.content) >= Len(current.content)
              /\ SubSeq(new.content, 1, Len(current.content)) = current.content
              /\ new.moral = IF strip(r[2]) # EmptyText THEN strip(r[2])
                             ELSE current.moral
              /\ new.title = current.title
              /\ new.version = current.version + 1]_vars

\* a beat with a moral was committed to a story that had a body and a moral
C18_Witness ==
    /\ pc \in {"menu", "exit"}
    /\ calls = <<"propose", "continue">>
    /\ returned = 2
    /\ main_story = Story(<<"w">>, <<"x", NL, NL, "z">>, <<"v">>, 2)


\* the call sites of the operations that work on a Story of their own while
\* main holds the current one
StorySites == {"draft", "judge", "refine", "modify", "propose", "pick", "continue"}

\* C20: generate_story yields version 1; refine_story, apply_user_modification
\* and a committed continuation beat yield the version of the Story they
\* replace plus 1; no other step changes a Story that is held, and the Story
\* main holds stays as it is while an operation works on its successor.
C20_VersionPerReplacement ==
    /\ [][(pc = "draft" /\ phase = "returned") => story'.version = 1]_vars
    /\ [][(pc = "refine" /\ phase = "returned") =>
            Committed(story', main_story', pc').version = story.version + 1]_vars
    /\ [][(pc = "modify" /\ phase = "returned") =>
            main_story'.version = main_story.version + 1]_vars
    /\ [][(pc = "continue" /\ phase = "returned") =>
            Committed(current', main_story', pc').version = current.version + 1]_vars
    /\ [][(story # NoStory /\ story' # NoStory /\ story' # story) =>
            (pc = "refine" /\ phase = "returned")]_vars
    /\ [][(current # NoStory /\ current' # NoStory /\ current' # current) =>
            (pc = "continue" /\ phase = "returned")]_vars
    /\ [][(pc \in StorySites /\ pc' \in StorySites) => main_story' = main_story]_vars
    /\ [][(main_story' # main_story) =>
            (phase = "returned" \/ pc = "pick") /\ pc' \in {"menu", "exit"}]_vars

\* the loop returned a refined draft and a requested modification replaced it
C20_Witness ==
    /\ pc = "menu"
    /\ calls = <<"modify">>
    /\ returned = 1
    /\ main_story.version = 3
    /\ Len(main_history) = 2


\* C21: drafting is the first gateway call of the loop and the only drafting;
\* each refinement comes directly after a judging and refines the version that
\* judging was about, and the call after it judges the version it produced;
\* each judging comes directly after the drafting or a refinement, so the
\* version under judgement is judged for the first time.
C21_DraftJudgeRefineOrder ==
    /\ [](/\ calls[1] = "draft"
          /\ CallsFrom("draft") = 1
          /\ \A k \in 2..Len(calls) :
                /\ calls[k] = "refine" => calls[k - 1] = "judge"
                /\ calls[k] = "judge" => calls[k - 1] \in {"draft", "refine"}
          /\ pc = "judge" => story.version = CallsFrom("judge")
          /\ pc = "refine" => story.version = CallsFrom("refine")
          /\ (pc = "menu" /\ shown = NoError) => calls[Len(calls)] = "judge")
    /\ [][(pc = "judge" /\ pc' = "refine") =>
            /\ prompt'.story = prompt.story
            /\ story' = story]_vars
    /\ [][(pc = "refine" /\ pc' # "refine" /\ phase = "returned") =>
            /\ pc' = "judge"
            /\ story'.version = story.version + 1
            /\ prompt'.story = format_story_for_context(story')]_vars
    /\ [][(pc = "draft" /\ phase = "returned") =>
            /\ pc' = "judge"
            /\ prompt'.story = format_story_for_context(story')]_vars

\* the loop returned after drafting, judging, refining, judging, refining and
\* judging
C21_Witness ==
    /\ pc = "menu"
    /\ shown = NoError
    /\ calls = <<"draft", "judge", "refine", "judge", "refine", "judge">>
    /\ main_story.version = 3


\* C22: the refinement request after round N is the one built from the current
\* Story and the judgement of round N alone: its improvement notes are the
\* scores, the critique and the suggestions of the last history entry, and the
\* judgements of rounds 1..N-1 make no difference to it.
C22_LatestFeedbackOnly ==
    pc = "refine" =>
        LET latest == history[Len(history)]
        IN  /\ history # << >>
            /\ prompt = refine_prompt(story, request, << latest >>)
            /\ prompt.story = format_story_for_context(story)
            /\ prompt.improvement.scores =
                  << latest.overall_score, latest.age_appropriateness,
                     latest.engagement, latest.moral_clarity,
                     latest.story_structure, latest.language_quality >>
            /\ prompt.improvement.feedback = latest.feedback
            /\ latest.suggestions # << >> =>
                  prompt.improvement.suggestions = latest.suggestions

\* a refinement after round 2, whose judgement differs from that of round 1 in
\* score, critique and suggestions
C22_Witness ==
    /\ pc = "refine"
    /\ Len(history) = 2
    /\ history[1].overall_score # history[2].overall_score
    /\ history[1].feedback # history[2].feedback
    /\ history[1].suggestions # history[2].suggestions
    /\ history[2].suggestions # << >>


\* C23: the gateway calls of choice mode alternate between proposal and
\* continuation, starting with a proposal; each proposal is asked against the
\* Story committed so far and its answer gives the options of the step; a
\* selection is awaited after every proposal, and a continuation is asked only
\* from there, for one of the two options of that step and for the same Story.
C23_ProposeSelectContinue ==
    /\ [](/\ \A k \in 1..Len(calls) :
                calls[k] = IF k % 2 = 1 THEN "propose" ELSE "continue"
          /\ pc = "propose" =>
                /\ prompt.story = format_story_for_context(current)
                /\ prompt.step_num = step
                /\ Len(calls) = 2 * step - 1
          /\ pc = "continue" =>
                /\ prompt.story = format_story_for_context(current)
                /\ prompt.chosen_option \in {options[1], options[2]}
                /\ Len(calls) = 2 * step)
    /\ [][(pc = "propose" /\ phase = "returned") =>
            /\ pc' = "pick"
            /\ options' = parse_choice_proposal(response)
            /\ UNCHANGED << current, step >>]_vars
    /\ [][(pc # "continue" /\ pc' = "continue") =>
            /\ pc = "pick"
            /\ UNCHANGED << current, step, options >>]_vars
    /\ [][(pc = "pick" /\ pc' = "pick") => UNCHANGED options]_vars

\* at step 2 a continuation is asked for the second option of step 2, which
\* is not one of the options w and x that the service proposes
C23_Witness ==
    /\ pc = "continue"
    /\ step = 2
    /\ prompt.chosen_option = options[2]
    /\ prompt.chosen_option \notin {<<"w">>, <<"x">>}
    /\ current.version = 2


\* an input that is neither a selection nor a quit word
InvalidPick(line) == lower(strip(line)) \notin QuitWords \cup {<<"1">>, <<"2">>}

\* C24: reading an input that is neither 1 or 2 nor a quit word while a
\* selection is awaited changes nothing: the current Story, the step, the two
\* options, the gateway and its call record stay as they are and the selection
\* of the same step is still awaited.
C24_InvalidPickNoEffect ==
    [][\A l \in PickLines, saved \in BOOLEAN :
          (InvalidPick(l) /\ Pick(l, saved)) =>
              /\ UNCHANGED << current, step, options >>
              /\ UNCHANGED << calls, returned, gwvars >>
              /\ UNCHANGED << main_story, main_history >>
              /\ pc' = "pick"]_vars

\* a selection is awaited at step 2 for two proposed options, with an input at
\* hand that is not valid
C24_Witness ==
    /\ pc = "pick"
    /\ step = 2
    /\ options = << <<"w">>, <<"x">> >>
    /\ current.version = 2
    /\ \E l \in PickLines : InvalidPick(l) /\ ENABLED Pick(l, TRUE)


\* C25: when generate_and_refine_story has returned normally, the version of
\* the Story it returned is the number of judgements in the history it
\* returned, the last gateway call was the judging of exactly that Story, in
\* the round of that number, and the last history entry is what that judging
\* answered.
C25_ReturnedStoryIsJudged ==
    (pc = "menu" /\ shown = NoError) =>
        /\ main_story.version >= 1
        /\ main_story.version = Len(main_history)
        /\ calls[Len(calls)] = "judge"
        /\ returned = Len(calls)
        /\ prompt.kind = "judge"
        /\ prompt.story = format_story_for_context(main_story)
        /\ prompt.round_num = Len(main_history)
        /\ main_history[Len(main_history)] =
              parse_judge_response(io[Len(io)].content.text)
        /\ ReturnedCalls({"draft", "refine"}) = main_story.version

\* the loop returned the second version with two judgements, the second one
\* passing
C25_Witness ==
    /\ pc = "menu"
    /\ shown = NoError
    /\ main_story.version = 2
    /\ Len(main_history) = 2
    /\ main_history[1].overall_score < JUDGE_THRESHOLD
    /\ main_history[2].overall_score >= JUDGE_THRESHOLD


\* C26: in the history of the loop, while it runs and when it is returned,
\* every entry before the last has an overall score below 7.
C26_PassOnlyLast ==
    /\ \A i \in 1..(Len(history) - 1) : history[i].overall_score < 7
    /\ \A i \in 1..(Len(main_history) - 1) : main_history[i].overall_score < 7
    /\ pc = "refine" => history[Len(history)].overall_score < 7

\* a history of three judgements was returned whose last entry passes with 7
C26_Witness ==
    /\ pc = "menu"
    /\ shown = NoError
    /\ Len(main_history) = 3
    /\ main_history[1].overall_score = 5
    /\ main_history[2].overall_score = 6
    /\ main_history[3].overall_score = 7


\* ------------------------------------------------------------ the loop, live
\* what the remote service does with an attempt in flight: it answers or fails
RemoteAnswers ==
    \/ \E t \in LoopReplies(pc) : AttemptReturns(Content(t))
    \/ \E c \in EmptyReplies : AttemptReturns(c)
    \/ \E e \in Errors : AttemptRaises(e)

\* what the program does once call_model has returned or raised in the loop
LoopHandlers == DraftReturns \/ JudgeReturns \/ RefineReturns \/ GenerateFails

\* a call of the loop has returned or raised and its caller has yet to go on:
\* the states in which LoopHandlers is enabled
HandlerDue == pc \in {"draft", "judge", "refine"} /\ phase \in {"returned", "raised"}

\* generate_and_refine_story with a remote service whose every attempt
\* eventually returns or fails, a sleep that ends, and a program that goes on
\* (weak fairness of LoopHandlers, with its enabling condition written out)
SpecLoopLive ==
    /\ SpecLoop
    /\ WF_vars(RemoteAnswers)
    /\ WF_vars(WakeUp)
    /\ ([]<>~HandlerDue \/ []<><<LoopHandlers>>_vars)

\* C27: one run of generate_and_refine_story makes at most 10 gateway calls
\* (1 draft, at most 5 judgings, at most 4 refinements) of at most 3 attempts
\* each, hence at most 30 remote attempts, and when every attempt eventually
\* returns or fails the run ends, returning to main or raising its error.
C27_LoopTerminates ==
    /\ [](/\ Len(calls) <= 10
          /\ CallsFrom("draft") = 1
          /\ CallsFrom("judge") <= 5
          /\ CallsFrom("refine") <= 4
          /\ Len(Attempts) <= 3
          /\ attempt <= 3
          /\ 3 * (Len(calls) - 1) + Len(Attempts) <= 30)
    /\ <>(pc \in {"menu", "idea"})

\* the run ended normally after 10 gateway calls, the last one of 3 attempts
C27_Witness ==
    /\ pc = "menu"
    /\ shown = NoError
    /\ Len(calls) = 10
    /\ CallsFrom("judge") = 5
    /\ CallsFrom("refine") = 4
    /\ Len(Attempts) = 3


\* a menu operation is at the gateway: request changes, regenerate or
\* interactive choice mode
MenuOperation ==
    \/ pc \in {"modify", "propose", "continue"}
    \/ pc \in {"draft", "judge", "refine"} /\ caller = "regenerate"

\* C28: main's Story and history do not change when a menu operation starts
\* nor while it runs, and when its gateway call is exhausted main shows the
\* error and the menu with the Story and the history it had; when that happens
\* at step k > 1 of choice mode, the k - 1 committed beats are dropped with
\* the engine's Story.
C28_FailedOperationKeepsSession ==
    /\ [][(pc = "menu" /\ pc' \in StorySites) =>
            UNCHANGED << main_story, main_history >>]_vars
    /\ [][(pc \in StorySites /\ pc' \in StorySites) =>
            UNCHANGED << main_story, main_history >>]_vars
    /\ [][(MenuOperation /\ phase = "raised") =>
            /\ UNCHANGED << main_story, main_history >>
            /\ pc' = "menu"
            /\ shown' = exc
            /\ shown'.type = "RuntimeError"
            /\ story' = NoStory /\ current' = NoStory]_vars
    /\ [][(pc \in {"propose", "continue"} /\ phase = "raised" /\ step > 1) =>
            /\ current.version = main_story.version + step - 1
            /\ current # main_story
            /\ main_story' # current]_vars

\* the gateway was exhausted at the proposal of step 2 of choice mode, and the
\* menu is shown with the first version of the Story
C28_Witness ==
    /\ pc = "menu"
    /\ shown.type = "RuntimeError"
    /\ calls = <<"propose", "continue", "propose">>
    /\ returned = 2
    /\ main_story.version = 1
    /\ Len(main_history) = 1
    /\ current = NoStory

=============================================================================
